---- MODULE Spec2Model ----
(***************************************************************************)
(* A model of the FAS4 decompiler (Fas2Lsp): the envelope readers, the     *)
(* payload decoding chain, the string extraction strategies and the        *)
(* string validity predicates, written from the Python sources.            *)
(*                                                                         *)
(* Bytes are the integers 0..255 and a bytes object is a sequence of them. *)
(* Positions keep Python's 0-based numbering: byte i of d is d[i + 1].     *)
(***************************************************************************)
EXTENDS Integers, Sequences, FiniteSets, TLC

VARIABLES
    data,       \* the bytes of the input file
    shape,      \* how the input file was laid out: header, line ends, size text, payload
    pc,         \* "start" before an entry point has run, "done" after
    ran,        \* the entry point that ran
    container,  \* the reader's locals after framing: status, size, payload
    stages,     \* the decoding stages the entry point went through, in order
    output,     \* what the entry point returned
    parser,     \* the parser object's tables: string_table, symbols, functions
    format,     \* the format detect_fas_format reported ("": not run)
    report,     \* the figures the run printed to standard output, by name
    exitCode,   \* the process exit code of decompile_any.main (-1: not run)
    bytecode,   \* the buffer handed to the string extraction strategies
    record,     \* the record planted in the buffer: offset, index, text
    tables,     \* the string tables the resolvers built from the buffer
    str,        \* the string handed to the validity predicates
    verdicts,   \* the answer of each validity predicate on str
    operations, \* the operations an instruction interpreter built from the buffer
    decoded_data,\* self.decoded_data of the Fas4Parser object, as output lines
    renderings, \* what each rendering call returned, in call order
    recovered,  \* the strings handed to the code generator, in the order recovered
    runs,       \* what each parse_file call returned and left in its parser object, in call order
    tried,      \* the codecs tried so far on the payload, each with its outcome
    chosen,     \* the local data of parse_file: the buffer decoding chose (set: not None)
    consumed,   \* the buffers handed to the inner-format parsers and to the fallback generator
    candidates, \* what each strategy of an extractor proposed, in the order the extractor merged them
    key_order,  \* the XOR keys of a keyed scan, in the order their results were collected
    walk        \* the locals of a loop over the buffer between two turns: position, turns left, what it accepted and read

vars == <<data, shape, pc, ran, container, stages, output, parser, format,
          report, exitCode, bytecode, record, tables, str, verdicts,
          operations,
          decoded_data,
          renderings,
          recovered,
          runs,
          tried,
          chosen,
          consumed,
          candidates,
          key_order,
          walk>>

----------------------------------------------------------------------------
(* Bounds of the model.                                                    *)

MaxPayloadLen == 2
MaxFillerLen == 2
MaxTextLen == 2
MaxStrLen == 3
MaxTailLen == 2

----------------------------------------------------------------------------
(* Python's bytes and str operations.                                      *)

Min(S) == CHOOSE x \in S : \A y \in S : x <= y
Max(S) == CHOOSE x \in S : \A y \in S : x >= y

LF == 10
CR == 13
SP == 32

\* The normalisation of a slice bound: negative bounds count from the end.
PyIdx(i, n) == IF i < 0 THEN (IF i + n < 0 THEN 0 ELSE i + n)
               ELSE (IF i > n THEN n ELSE i)

\* d[a:b]
PySlice(d, a, b) ==
    LET lo == PyIdx(a, Len(d))
        hi == PyIdx(b, Len(d))
    IN  IF lo >= hi THEN <<>> ELSE SubSeq(d, lo + 1, hi)

\* d.find(pat, start), start >= 0 and pat not empty
Find(d, pat, start) ==
    LET hits == {i \in start..(Len(d) - Len(pat)) :
                    SubSeq(d, i + 1, i + Len(pat)) = pat}
    IN  IF hits = {} THEN -1 ELSE Min(hits)

\* pat in d
Contains(d, pat) == Find(d, pat, 0) # -1

\* d.startswith(pat)
StartsWith(d, pat) == Len(d) >= Len(pat) /\ SubSeq(d, 1, Len(pat)) = pat

\* c.isspace() for an ASCII character
IsSpace(c) == c \in {9, 10, 11, 12, 13, 28, 29, 30, 31, 32}
IsDigit(c) == c \in 48..57
IsUpper(c) == c \in 65..90
IsLower(c) == c \in 97..122
\* c.isalpha(), c.isalnum() for an ASCII character
IsAlpha(c) == IsUpper(c) \/ IsLower(c)
IsAlnum(c) == IsAlpha(c) \/ IsDigit(c)
IsPrintable(b) == 32 <= b /\ b <= 126

RECURSIVE LStrip(_)
LStrip(s) == IF s # <<>> /\ IsSpace(Head(s)) THEN LStrip(Tail(s)) ELSE s

RECURSIVE RStrip(_)
RStrip(s) == IF s # <<>> /\ IsSpace(s[Len(s)])
             THEN RStrip(SubSeq(s, 1, Len(s) - 1)) ELSE s

\* s.strip()
Strip(s) == RStrip(LStrip(s))

\* b.decode('ascii', errors='ignore'): bytes above 127 are dropped
IsAscii(b) == b < 128
DecodeAsciiIgnore(b) == SelectSeq(b, IsAscii)

RECURSIVE RStripNul(_)
\* s.rstrip('\x00')
RStripNul(s) == IF s # <<>> /\ s[Len(s)] = 0
                THEN RStripNul(SubSeq(s, 1, Len(s) - 1)) ELSE s

RECURSIVE DigitsValue(_)
DigitsValue(ds) == IF ds = <<>> THEN 0
                   ELSE 10 * DigitsValue(SubSeq(ds, 1, Len(ds) - 1))
                        + (ds[Len(ds)] - 48)

\* The whitespace int() skips is narrower than the whitespace strip() removes.
IsIntSpace(c) == c \in {9, 10, 11, 12, 13, 32}

RECURSIVE IntStrip(_)
IntStrip(s) ==
    IF s # <<>> /\ IsIntSpace(Head(s)) THEN IntStrip(Tail(s))
    ELSE IF s # <<>> /\ IsIntSpace(s[Len(s)]) THEN IntStrip(SubSeq(s, 1, Len(s) - 1))
    ELSE s

\* int(s) in base 10: surrounding whitespace, one optional sign, then digits
\* that single underscores may separate.  ok = FALSE stands for ValueError.
PyInt(s) ==
    LET t    == IntStrip(s)
        neg  == t # <<>> /\ Head(t) = 45
        sgn  == t # <<>> /\ Head(t) \in {43, 45}
        body == IF sgn THEN Tail(t) ELSE t
        n    == Len(body)
        wellFormed ==
            /\ n > 0
            /\ \A i \in 1..n : IsDigit(body[i]) \/ body[i] = 95
            /\ IsDigit(body[1]) /\ IsDigit(body[n])
            /\ \A i \in 1..(n - 1) : ~(body[i] = 95 /\ body[i + 1] = 95)
        v    == DigitsValue(SelectSeq(body, IsDigit))
    IN  IF wellFormed THEN [ok |-> TRUE, val |-> IF neg THEN 0 - v ELSE v]
        ELSE [ok |-> FALSE, val |-> 0]

RECURSIVE Decimal(_)
\* str(n).encode() for n >= 0
Decimal(n) == IF n < 10 THEN <<48 + n>>
              ELSE Decimal(n \div 10) \o <<48 + (n % 10)>>

RECURSIVE XorBits(_, _, _)
XorBits(a, b, n) == IF n = 0 THEN 0
                    ELSE (((a % 2) + (b % 2)) % 2) + 2 * XorBits(a \div 2, b \div 2, n - 1)

XorTable == [a \in 0..255 |-> [b \in 0..255 |-> XorBits(a, b, 8)]]

\* a ^ b on bytes
Xor(a, b) == XorTable[a][b]

\* bytes(b ^ key for b in d)
XorAll(d, key) == [i \in 1..Len(d) |-> Xor(d[i], key)]

\* bytes((b + shift) & 0xFF for b in d)
ShiftAll(d, shift) == [i \in 1..Len(d) |-> (d[i] + shift) % 256]

\* Values of 2^30 and above are all read as U32Big: every bound the code
\* compares an unsigned field with is far below it.
U32Big == 1073741824

\* struct.unpack('<I', d[p:p+4])[0], for p + 4 <= len(d)
U32(d, p) ==
    IF d[p + 4] >= 64 THEN U32Big
    ELSE d[p + 1] + 256 * d[p + 2] + 65536 * d[p + 3] + 16777216 * d[p + 4]

\* struct.unpack('<H', d[p:p+2])[0], for p + 2 <= len(d)
U16(d, p) == d[p + 1] + 256 * d[p + 2]

----------------------------------------------------------------------------
(* The envelope readers.  Each returns the locals it holds once the        *)
(* envelope is read: status "ok" with the declared size and the payload,   *)
(* or the error it stopped with.                                           *)

\* b'FAS4-FILE'
Marker == <<70, 65, 83, 52, 45, 70, 73, 76, 69>>
\* b'FAS\x00'
LegacyMagic == <<70, 65, 83, 0>>
\* b'38 $'
Fas4Prefix == <<51, 56, 32, 36>>

Framed(size, payload) == [status |-> "ok", size |-> size, payload |-> payload]
FrameError(why) == [status |-> why, size |-> 0, payload |-> <<>>]

\* The first line end at or after p, as parse_file looks for it: the next
\* LF, or with no LF in the rest of the file the next CR.
LineEnd(d, p) ==
    IF Find(d, <<LF>>, p) # -1 THEN Find(d, <<LF>>, p) ELSE Find(d, <<CR>>, p)

\* parse_file steps over the line end at e, and over one more LF when the
\* byte it stepped over is a CR.
PastLineEnd(d, e) ==
    IF e + 1 < Len(d) /\ d[e + 2] = LF /\ d[e + 1] = CR THEN e + 2 ELSE e + 1

\* Fas4Parser.parse_file up to the payload slice, one definition per
\* local it computes, the last first.

\* compressed_data = data[size_end:size_end + size], after the length test
parse_file_compressed_data(d, size, data_start) ==
    IF data_start + size > Len(d)
    THEN [status |-> "TruncatedPayload", size |-> size, payload |-> <<>>]
    ELSE Framed(size, PySlice(d, data_start, data_start + size))

\* size = int(size_str); parsed is what int() made of the size text
parse_file_size(d, parsed, size_end) ==
    IF ~parsed.ok THEN FrameError("InvalidLength")
    ELSE parse_file_compressed_data(d, parsed.val, PastLineEnd(d, size_end))

\* size_str, stripped: an empty size line is an error of its own
parse_file_size_str(d, size_str, size_end) ==
    IF size_str = <<>> THEN FrameError("MissingLength")
    ELSE parse_file_size(d, PyInt(size_str), size_end)

\* size_end: the end of the size line
parse_file_size_end(d, size_start, size_end) ==
    IF size_end = -1 THEN FrameError("MissingLength")
    ELSE parse_file_size_str(
             d, Strip(DecodeAsciiIgnore(PySlice(d, size_start, size_end))), size_end)

\* size_start: the first byte after the header line
parse_file_size_start(d, size_start) ==
    parse_file_size_end(d, size_start, LineEnd(d, size_start))

\* header_end: the end of the header line
parse_file_header_end(d, header_end) ==
    IF header_end = -1 THEN FrameError("MissingHeaderEnd")
    ELSE parse_file_size_start(d, PastLineEnd(d, header_end))

\* header_pos = data.find(b'FAS4-FILE')
parse_file_header_pos(d, header_pos) ==
    IF header_pos = -1 THEN FrameError("MissingHeader")
    ELSE parse_file_header_end(d, LineEnd(d, header_pos))

\* The container Fas4Parser.parse_file reads from the bytes d
Fas4Parser_frame(d) == parse_file_header_pos(d, Find(d, Marker, 0))

\* The line end read_fas4_file looks for: the next CRLF, or with no CRLF
\* in the rest of the file the next LF.
CrLfEnd(d, p) ==
    IF Find(d, <<CR, LF>>, p) # -1 THEN Find(d, <<CR, LF>>, p)
    ELSE Find(d, <<LF>>, p)

\* Fas4ReverseEngineer.read_fas4_file, one definition per local it
\* computes, the last first.

\* bytecode = data[bytecode_start:bytecode_start + size]
read_fas4_file_bytecode(size, bc) ==
    IF Len(bc) < size THEN FrameError("TruncatedPayload") ELSE Framed(size, bc)

\* bytecode_start = size_end + 2, plus one over a CRLF found there;
\* data[bytecode_start - 1] is read before any bound is tested
read_fas4_file_bytecode_start(d, size, bs0) ==
    IF bs0 - 1 >= Len(d) THEN FrameError("IndexError")
    ELSE IF d[bs0] = CR /\ bs0 < Len(d) /\ d[bs0 + 1] = LF
    THEN read_fas4_file_bytecode(size, PySlice(d, bs0 + 1, bs0 + 1 + size))
    ELSE read_fas4_file_bytecode(size, PySlice(d, bs0, bs0 + size))

\* size = int(size_str)
read_fas4_file_size(d, parsed, size_end) ==
    IF ~parsed.ok THEN FrameError("InvalidLength")
    ELSE read_fas4_file_bytecode_start(d, parsed.val, size_end + 2)

\* size_end: the end of the size line
read_fas4_file_size_end(d, size_start, size_end) ==
    IF size_end = -1 THEN FrameError("MissingLength")
    ELSE read_fas4_file_size(
             d, PyInt(Strip(DecodeAsciiIgnore(PySlice(d, size_start, size_end)))),
             size_end)

\* size_start = header_end + 2
read_fas4_file_size_start(d, size_start) ==
    IF size_start >= Len(d) THEN FrameError("FileTooShort")
    ELSE read_fas4_file_size_end(d, size_start, CrLfEnd(d, size_start))

\* header_end: the end of the header line
read_fas4_file_header_end(d, header_end) ==
    IF header_end = -1 THEN FrameError("MissingHeaderEnd")
    ELSE read_fas4_file_size_start(d, header_end + 2)

\* header_start = data.find(b'FAS4-FILE')
read_fas4_file_header_start(d, header_start) ==
    IF header_start = -1 THEN FrameError("MissingHeader")
    ELSE read_fas4_file_header_end(d, CrLfEnd(d, header_start))

\* The container Fas4ReverseEngineer.read_fas4_file reads from the bytes d
read_fas4_file(d) == read_fas4_file_header_start(d, Find(d, Marker, 0))

----------------------------------------------------------------------------
(* The legacy inner format: magic, version, string table, symbol table,    *)
(* function records.  A dict is a function on its keys.  A value is a      *)
(* record tagged with its Python type.                                     *)

EmptyDict == <<>>
Put(t, k, v) == [x \in (DOMAIN t) \cup {k} |-> IF x = k THEN v ELSE t[x]]
Get(t, k, dflt) == IF k \in DOMAIN t THEN t[k] ELSE dflt

\* self.symbols, self.functions, self.string_table, self.current_position[0]
NewParser == [string_table |-> EmptyDict, symbols |-> EmptyDict,
              functions |-> <<>>, line |-> 0]

\* struct.unpack('i', d[p:p+4])[0], for p + 4 <= len(d)
S32(d, p) ==
    d[p + 1] + 256 * d[p + 2] + 65536 * d[p + 3]
    + 16777216 * (IF d[p + 4] >= 128 THEN d[p + 4] - 256 ELSE d[p + 4])

RECURSIVE DecodeUtf8From(_, _)
\* The characters of b from index i on: an ASCII byte is itself, a lead
\* byte C2..DF with its continuation byte is one character, any other
\* byte becomes U+FFFD
DecodeUtf8From(b, i) ==
    IF i > Len(b) THEN <<>>
    ELSE IF b[i] < 128 THEN <<b[i]>> \o DecodeUtf8From(b, i + 1)
    ELSE IF b[i] \in 194..223 /\ i < Len(b) /\ b[i + 1] \in 128..191
    THEN <<(b[i] - 192) * 64 + (b[i + 1] - 128)>> \o DecodeUtf8From(b, i + 2)
    ELSE <<65533>> \o DecodeUtf8From(b, i + 1)

\* b.decode('utf-8', errors='replace'), exact on ASCII, on two-byte
\* sequences and on bytes that start no longer sequence
DecodeUtf8Replace(b) == DecodeUtf8From(b, 1)

Nil == [t |-> "nil"]
\* 'sym_', 'arg', 'unknown_function'
SymPrefix == <<115, 121, 109, 95>>
ArgPrefix == <<97, 114, 103>>
UnknownFunction == <<117, 110, 107, 110, 111, 119, 110, 95,
                     102, 117, 110, 99, 116, 105, 111, 110>>

\* _parse_value_from_view of both parsers: a short read raises (EOFError in
\* Fas4Parser, struct.error in FasParser); every caller treats both alike.
parse_value_from_view(d, pos, value_type, st) ==
    IF value_type \notin 1..4 THEN [ok |-> TRUE, val |-> Nil, pos |-> pos]
    ELSE IF pos + 4 > Len(d) THEN [ok |-> FALSE, val |-> Nil, pos |-> pos]
    ELSE
      LET val ==
            CASE value_type = 1 -> [t |-> "int", v |-> S32(d, pos)]
              [] value_type = 2 -> [t |-> "float", raw |-> PySlice(d, pos, pos + 4)]
              [] value_type = 3 ->
                   [t |-> "str", v |-> Get(st.string_table, U32(d, pos), <<>>)]
              [] value_type = 4 ->
                   IF U32(d, pos) \in DOMAIN st.symbols
                   THEN [t |-> "sym", name |-> st.symbols[U32(d, pos)].name]
                   ELSE Nil
      IN  [ok |-> TRUE, val |-> val, pos |-> pos + 4]

RECURSIVE read_strings(_, _, _, _, _)
\* The string table loop.  Fas4Parser tests the bounds and returns False;
\* FasParser lets struct.unpack raise on a short read and slices whatever
\* is left of the string.
read_strings(variant, d, pos, left, st) ==
    IF left = 0 THEN [ok |-> TRUE, pos |-> pos, st |-> st]
    ELSE IF pos + 8 > Len(d) THEN [ok |-> FALSE, pos |-> pos, st |-> st]
    ELSE
      LET idx    == U32(d, pos)
          length == U32(d, pos + 4)
          p      == pos + 8
      IN  IF variant = "fas4" /\ p + length > Len(d)
          THEN [ok |-> FALSE, pos |-> p, st |-> st]
          ELSE read_strings(variant, d, p + length, left - 1,
                   [st EXCEPT !.string_table =
                       Put(@, idx, DecodeUtf8Replace(PySlice(d, p, p + length)))])

RECURSIVE read_symbols(_, _, _, _, _, _)
\* One turn of the symbol table loop once the value is parsed
read_symbol(variant, d, i, n, st, name_idx, r) ==
    IF ~r.ok THEN [ok |-> FALSE, pos |-> r.pos, st |-> st]
    ELSE read_symbols(variant, d, r.pos, i + 1, n,
             [st EXCEPT !.symbols =
                           Put(@, i, [index |-> i,
                                      name |-> Get(st.string_table, name_idx,
                                                   SymPrefix \o Decimal(i)),
                                      value |-> r.val, line |-> st.line]),
                        !.line = @ + 1])

\* The symbol table loop.  Fas4Parser leaves the loop (break) when fewer
\* than 5 bytes are left; FasParser raises.
read_symbols(variant, d, pos, i, n, st) ==
    IF i = n THEN [ok |-> TRUE, pos |-> pos, st |-> st]
    ELSE IF pos + 5 > Len(d)
    THEN [ok |-> (variant = "fas4"), pos |-> pos, st |-> st]
    ELSE read_symbol(variant, d, i, n, st, U32(d, pos),
                     parse_value_from_view(d, pos + 5, d[pos + 5], st))

RECURSIVE read_args(_, _, _, _, _, _)
read_args(d, pos, i, n, acc, st) ==
    IF i = n THEN [ok |-> TRUE, pos |-> pos, args |-> acc]
    ELSE IF pos + 4 > Len(d) THEN [ok |-> FALSE, pos |-> pos, args |-> acc]
    ELSE read_args(d, pos + 4, i + 1, n,
             Append(acc, Get(st.string_table, U32(d, pos), ArgPrefix \o Decimal(i))),
             st)

RECURSIVE read_body(_, _, _, _, _)
\* One turn of the body loop once the value is parsed
read_body_item(d, left, acc, st, r) ==
    IF ~r.ok THEN [ok |-> FALSE, pos |-> r.pos, body |-> acc]
    ELSE read_body(d, r.pos, left - 1, Append(acc, r.val), st)

read_body(d, pos, left, acc, st) ==
    IF left = 0 THEN [ok |-> TRUE, pos |-> pos, body |-> acc]
    ELSE IF pos >= Len(d) THEN [ok |-> FALSE, pos |-> pos, body |-> acc]
    ELSE read_body_item(d, left, acc, st,
                        parse_value_from_view(d, pos + 1, d[pos + 1], st))

\* A function made of the body items read before the buffer ran short
parse_function_partial(st, name, args, b) ==
    [ok |-> TRUE, pos |-> b.pos,
     func |-> [name |-> name, args |-> args, body |-> b.body,
               source_position |-> st.line]]

\* _parse_function_from_view once the body is read
parse_function_body(st, name, args, b) ==
    IF ~b.ok THEN [ok |-> FALSE, pos |-> b.pos, func |-> Nil]
    ELSE [ok |-> TRUE, pos |-> b.pos,
          func |-> [name |-> name, args |-> args, body |-> b.body,
                    source_position |-> st.line]]

\* _parse_function_from_view once the arguments are read
parse_function_args(d, st, name, a) ==
    IF ~a.ok \/ a.pos + 4 > Len(d) THEN [ok |-> FALSE, pos |-> a.pos, func |-> Nil]
    ELSE parse_function_body(st, name, a.args,
                             read_body(d, a.pos + 4, U32(d, a.pos), <<>>, st))

\* _parse_function_from_view of both parsers: ok = FALSE stands for the
\* returned None, whichever way the read ran short.
parse_function_from_view(d, pos, st) ==
    IF pos + 8 > Len(d) THEN [ok |-> FALSE, pos |-> pos, func |-> Nil]
    ELSE parse_function_args(d, st, Get(st.string_table, U32(d, pos), UnknownFunction),
                             read_args(d, pos + 8, 0, U32(d, pos + 4), <<>>, st))

RECURSIVE read_functions(_, _, _)
\* One turn of the function loop once a record is parsed
read_function(d, st, f) ==
    IF ~f.ok THEN st
    ELSE read_functions(d, f.pos, [st EXCEPT !.functions = Append(@, f.func)])

\* while pos < len(view): parse one function record, stop at the first
\* that cannot be parsed
read_functions(d, pos, st) ==
    IF pos >= Len(d) THEN st
    ELSE read_function(d, st, parse_function_from_view(d, pos, st))

\* _parse_fas_content once the symbol table is read
parse_fas_content_symbols(d, y) ==
    IF ~y.ok THEN [ok |-> FALSE, st |-> y.st]
    ELSE [ok |-> TRUE, st |-> read_functions(d, y.pos, y.st)]

\* _parse_fas_content once the string table is read
parse_fas_content_strings(variant, d, s) ==
    IF ~s.ok \/ s.pos + 4 > Len(d) THEN [ok |-> FALSE, st |-> s.st]
    ELSE parse_fas_content_symbols(
             d, read_symbols(variant, d, s.pos + 4, 0, U32(d, s.pos), s.st))

\* _parse_fas_content: the returned flag and the parser's tables after the
\* call (the tables are updated in place, also when the call fails)
parse_fas_content(variant, d, st) ==
    IF ~StartsWith(d, LegacyMagic) THEN [ok |-> FALSE, st |-> st]
    ELSE IF 12 > Len(d) THEN [ok |-> FALSE, st |-> st]
    ELSE parse_fas_content_strings(variant, d,
                                   read_strings(variant, d, 12, U32(d, 8), st))

\* Fas4Parser._parse_fas_content
Fas4Parser_parse_fas_content(d, st) == parse_fas_content("fas4", d, st)

\* FasParser._parse_fas_content
FasParser_parse_fas_content(d, st) == parse_fas_content("fas", d, st)

----------------------------------------------------------------------------
(* Payload codecs.                                                         *)

RECURSIVE xor_fixed(_, _, _)
\* A cipher whose key is never advanced: every byte XOR the starting key
xor_fixed(d, i, key) ==
    IF i > Len(d) THEN <<>>
    ELSE <<Xor(d[i], key)>> \o xor_fixed(d, i + 1, key)

RECURSIVE xor_stream(_, _, _)
\* The loop of Fas4Parser._custom_decompress from byte i on
xor_stream(d, i, key) ==
    IF i > Len(d) THEN <<>>
    ELSE <<Xor(d[i], key)>> \o xor_stream(d, i + 1, (key * 13 + 7) % 256)

\* Fas4Parser._custom_decompress
Fas4Parser_custom_decompress(d) == xor_stream(d, 1, 85)

RECURSIVE FasParser_xor(_, _, _)
FasParser_xor(d, i, key) ==
    IF i > Len(d) THEN <<>>
    ELSE <<Xor(d[i], key)>> \o FasParser_xor(d, i + 1, (key * 13 + 7) % 256)

\* FasParser._custom_decompress
FasParser_custom_decompress(d) == FasParser_xor(d, 1, 85)

\* zlib.decompress is a library call; the streams the inputs of this model
\* hold are tabulated with what zlib returns for them.  A stream is at
\* least 8 bytes long and its first byte has the low nibble 8; every other
\* input raises zlib.error.
ZlibStreams == {
    [stream |-> <<120, 156, 3, 0, 0, 0, 0, 1>>, plain |-> <<>>],
    [stream |-> <<120, 156, 115, 115, 12, 102, 0, 0, 2, 133, 0, 219>>,
     plain  |-> <<70, 65, 83, 0>>] }

zlib_decompress(d) ==
    IF \E z \in ZlibStreams : z.stream = d
    THEN [ok |-> TRUE, data |-> (CHOOSE z \in ZlibStreams : z.stream = d).plain]
    ELSE [ok |-> FALSE, data |-> <<>>]

----------------------------------------------------------------------------
(* String handling shared by the extraction strategies.                    *)

DictUpdate(a, b) ==
    [k \in (DOMAIN a) \cup (DOMAIN b) |-> IF k \in DOMAIN b THEN b[k] ELSE a[k]]

\* s.lower()
Lower(s) == [i \in 1..Len(s) |-> IF IsUpper(s[i]) THEN s[i] + 32 ELSE s[i]]

AnyAlnum(s) == \E i \in 1..Len(s) : IsAlnum(s[i])
AnyAlpha(s) == \E i \in 1..Len(s) : IsAlpha(s[i])
AllPrintable(s) == \A i \in 1..Len(s) : IsPrintable(s[i])
\* sum(1 for b in s if 32 <= b <= 126)
PrintableCount(s) == Cardinality({i \in 1..Len(s) : IsPrintable(s[i])})
\* any(p in s for p in pats), pats a sequence of strings
ContainsAny(s, pats) == \E j \in 1..Len(pats) : Contains(s, pats[j])

RECURSIVE RunsFrom(_, _, _, _)
\* The loop every embedded-ASCII scan shares: the maximal runs of bytes in
\* 0x20..0x7E, in order, each with its start offset; last marks the run
\* that reaches the end of the buffer (the code handles it after the loop).
RunsFrom(d, i, start, cur) ==
    IF i > Len(d)
    THEN (IF cur # <<>> THEN <<[start |-> start, text |-> cur, last |-> TRUE]>>
          ELSE <<>>)
    ELSE IF IsPrintable(d[i])
    THEN RunsFrom(d, i + 1, IF cur = <<>> THEN i - 1 ELSE start, Append(cur, d[i]))
    ELSE (IF cur # <<>> THEN <<[start |-> start, text |-> cur, last |-> FALSE]>>
          ELSE <<>>) \o RunsFrom(d, i + 1, start, <<>>)

Runs(d) == RunsFrom(d, 1, 0, <<>>)

\* The dict a scan builds from the runs it accepts (one key per run).
RunsDict(rs) ==
    [k \in {rs[j].start : j \in 1..Len(rs)} |->
        (CHOOSE r \in {rs[j] : j \in 1..Len(rs)} : r.start = k).text]

\* 'princ', 'setq', 'getstring', 'namedobjdict', 'wcmatch', 'dictremove',
\* 'strcat', 'itoa', 'if', 'progn', 'not', 'exit', 'or'
Keywords == <<
    <<112, 114, 105, 110, 99>>,
    <<115, 101, 116, 113>>,
    <<103, 101, 116, 115, 116, 114, 105, 110, 103>>,
    <<110, 97, 109, 101, 100, 111, 98, 106, 100, 105, 99, 116>>,
    <<119, 99, 109, 97, 116, 99, 104>>,
    <<100, 105, 99, 116, 114, 101, 109, 111, 118, 101>>,
    <<115, 116, 114, 99, 97, 116>>,
    <<105, 116, 111, 97>>,
    <<105, 102>>,
    <<112, 114, 111, 103, 110>>,
    <<110, 111, 116>>,
    <<101, 120, 105, 116>>,
    <<111, 114>> >>

IsKeyword(s) == \E j \in 1..Len(Keywords) : Keywords[j] = s

----------------------------------------------------------------------------
(* Fas4Parser: validity, embedded-ASCII scan, pointer table.               *)

\* '}}}}', '{{{', '|||', '~~~', '^^^', 'UUU', '888', '&&&', 'TTT'
Fas4Parser_garbage == <<
    <<125, 125, 125, 125>>, <<123, 123, 123>>, <<124, 124, 124>>,
    <<126, 126, 126>>, <<94, 94, 94>>, <<85, 85, 85>>, <<56, 56, 56>>,
    <<38, 38, 38>>, <<84, 84, 84>> >>

\* Fas4Parser._is_valid_extracted_string
is_valid_extracted_string(s) ==
    /\ Len(s) >= 2
    /\ AnyAlnum(s)
    /\ ~ContainsAny(s, Fas4Parser_garbage)

IsReadableRun(r) == Len(r.text) >= 3 /\ is_valid_extracted_string(r.text)

\* Fas4Parser._extract_readable_ascii
extract_readable_ascii(d) == RunsDict(SelectSeq(Runs(d), IsReadableRun))

RECURSIVE extract_strings_from_offset_loop(_, _, _, _)
extract_strings_from_offset_loop(d, pos, attempts, strings) ==
    IF ~(pos < Len(d) - 8 /\ attempts < 100) THEN strings
    ELSE
      LET length    == U32(d, pos)
          potential == PySlice(d, pos + 4, pos + 4 + length)
          s         == RStripNul(DecodeAsciiIgnore(potential))
      IN  IF /\ 4 <= length /\ length <= 200 /\ pos + 4 + length <= Len(d)
             /\ 10 * PrintableCount(potential) >= 7 * length
             /\ Len(s) >= 3 /\ AnyAlnum(s)
          THEN extract_strings_from_offset_loop(d, pos + 4 + length, attempts + 1,
                                                Put(strings, pos, s))
          ELSE extract_strings_from_offset_loop(d, pos + 1, attempts + 1, strings)

\* Fas4Parser._extract_strings_from_offset: records [length:u32][bytes],
\* keyed by the offset of the record
Fas4Parser_extract_strings_from_offset(d, offset) ==
    extract_strings_from_offset_loop(d, offset, 0, EmptyDict)

RECURSIVE SortedSeq(_)
\* sorted(S) for a finite set of integers
SortedSeq(S) == IF S = {} THEN <<>> ELSE <<Min(S)>> \o SortedSeq(S \ {Min(S)})

\* An output line: the text of the source's format string and the values
\* it interpolates.  An output text is its lines joined by newlines, so a
\* text that ends in a newline has an empty last line.
Line(fmt, args) == [fmt |-> fmt, args |-> args]

\* The XOR keys _extract_all_meaningful_strings tries, in order
MeaningfulKeys == <<0, 1, 255, 85, 170, 56, 36, 96, 102, 108, 111, 114>>

RECURSIVE xor_readable(_, _, _)
xor_readable(d, j, strings) ==
    IF j > Len(MeaningfulKeys) THEN strings
    ELSE xor_readable(d, j + 1,
             DictUpdate(strings, extract_readable_ascii(XorAll(d, MeaningfulKeys[j]))))

\* The strings of a dict that _is_valid_extracted_string accepts
valid_extracted(all) ==
    [k \in {x \in DOMAIN all : is_valid_extracted_string(all[x])} |-> all[k]]

\* The pointer table at the offset the first four bytes name, when they
\* name one inside the buffer
pointer_table_strings(bc) ==
    IF Len(bc) >= 4 /\ 0 < U32(bc, 0) /\ U32(bc, 0) < Len(bc)
    THEN Fas4Parser_extract_strings_from_offset(bc, U32(bc, 0))
    ELSE EmptyDict

\* _extract_all_meaningful_strings after the '38 $' prefix is dropped:
\* readable runs, readable runs under each XOR key, the pointer table,
\* each overriding the one before
meaningful_strings(bc) ==
    valid_extracted(DictUpdate(xor_readable(bc, 1, extract_readable_ascii(bc)),
                               pointer_table_strings(bc)))

\* Fas4Parser._extract_all_meaningful_strings
extract_all_meaningful_strings(bc0) ==
    meaningful_strings(IF Len(bc0) >= 4 /\ StartsWith(bc0, Fas4Prefix)
                       THEN PySlice(bc0, 4, Len(bc0)) ELSE bc0)

\* Fas4Parser._make_expression: the keyword is the last string of the group
\* that is a keyword, the arguments are the first two other strings.
\* ok = FALSE stands for the returned None.
make_expression(group) ==
    LET kws  == {j \in 1..Len(group) : IsKeyword(Lower(group[j]))}
        IsArg(x) == ~IsKeyword(Lower(x))
        args == SelectSeq(group, IsArg)
    IN  IF group = <<>> \/ kws = {} THEN [ok |-> FALSE, line |-> Line("", <<>>)]
        ELSE [ok |-> TRUE,
              line |-> IF args # <<>>
                       THEN Line("  ({keyword} {args})",
                                 <<group[Max(kws)], SubSeq(args, 1, IF Len(args) < 2 THEN Len(args) ELSE 2)>>)
                       ELSE Line("  ({keyword})", <<group[Max(kws)]>>)]

\* code_lines.append(expr) when _make_expression returned an expression
add_expression(lines, e) == IF e.ok THEN Append(lines, e.line) ELSE lines

RECURSIVE group_strings(_, _, _, _)
\* One turn of the loop of _build_code_from_extracted_strings: a string
\* that is or contains a keyword closes the current group and opens the
\* next.
group_string(strings, keys, current, lines, x) ==
    IF ContainsAny(Lower(x), Keywords)
    THEN group_strings(strings, keys, <<x>>, add_expression(lines, make_expression(current)))
    ELSE group_strings(strings, keys, Append(current, x), lines)

\* The loop of _build_code_from_extracted_strings over the strings sorted
\* by offset, and the last group after it
group_strings(strings, keys, current, lines) ==
    IF keys = <<>> THEN add_expression(lines, make_expression(current))
    ELSE group_string(strings, Tail(keys), current, lines, strings[Head(keys)])

\* Fas4Parser._build_code_from_extracted_strings
build_code_from_extracted_strings(strings) ==
    group_strings(strings, SortedSeq(DOMAIN strings), <<>>, <<>>)

\* Fas4Parser._show_extraction_analysis
show_extraction_analysis(strings, bc) ==
    LET keys  == SortedSeq(DOMAIN strings)
        shown == SubSeq(keys, 1, IF Len(keys) < 20 THEN Len(keys) ELSE 20)
    IN  << Line("  ;; Bytecode Analysis Results:", <<>>),
           Line("  ;; - Analyzed {} bytes of bytecode", <<Len(bc)>>),
           Line("  ;; - Extracted {} strings", <<Cardinality(DOMAIN strings)>>) >>
        \o (IF keys # <<>>
            THEN <<Line("  ;; Extracted strings (by offset):", <<>>)>>
                 \o [j \in 1..Len(shown) |->
                        Line("  ;;   [{offset:04d}] \"{s}\"", <<shown[j], strings[shown[j]]>>)]
            ELSE <<>>)
        \o << Line("  ;;", <<>>),
              Line("  ;; NOTE: FAS4 format is proprietary and strings are encoded/compressed", <<>>),
              Line("  ;; Full decompilation requires understanding the encoding algorithm", <<>>),
              Line("  (princ \"FAS4 bytecode analysis: strings extracted but format requires further reverse engineering\")", <<>>) >>

\* The code built from the strings, or the analysis listing without it
code_or_analysis(bc, extracted, code) ==
    IF code = <<>> THEN show_extraction_analysis(extracted, bc) ELSE code

\* _build_function_body_from_detected_operations once the strings are
\* extracted
body_from_extracted(bc, extracted) ==
    code_or_analysis(bc, extracted,
                     IF DOMAIN extracted # {}
                     THEN build_code_from_extracted_strings(extracted) ELSE <<>>)

\* Fas4Parser._build_function_body_from_detected_operations: the detected
\* operations it is handed are not used
build_function_body_from_detected_operations(bc) ==
    body_from_extracted(bc, extract_all_meaningful_strings(bc))

\* expected_strings of Fas4Parser._try_decode_strings
ExpectedStrings == <<
    <<112, 114, 105, 110, 99>>,
    <<115, 101, 116, 113>>,
    <<103, 101, 116, 115, 116, 114, 105, 110, 103>>,
    <<110, 97, 109, 101, 100, 111, 98, 106, 100, 105, 99, 116>>,
    <<119, 99, 109, 97, 116, 99, 104>>,
    <<100, 105, 99, 116, 114, 101, 109, 111, 118, 101>>,
    <<115, 116, 114, 99, 97, 116>>,
    <<105, 116, 111, 97>>,
    <<105, 102>>,
    <<112, 114, 111, 103, 110>>,
    <<110, 111, 116>>,
    <<101, 120, 105, 116>>,
    <<111, 114>>,
    <<65, 67, 65, 68, 95, 71, 82, 79, 85, 80>>,
    <<65, 67, 65, 68, 95, 76, 65, 89, 79, 85, 84>>,
    <<65, 67, 65, 68, 95, 77, 65, 84, 69, 82, 73, 65, 76>>,
    <<67, 111, 109, 109, 111, 110, 32, 68, 105, 99, 116, 105, 111, 110, 97, 114, 105, 101, 115>>,
    <<100, 105, 99, 116, 95, 110, 97, 109, 101>>,
    <<105, 116, 101, 109, 115, 95, 112, 117, 114, 103, 101, 100>>,
    <<100, 105, 99, 116, 95, 111, 98, 106>>,
    <<99, 111, 110, 116, 105, 110, 117, 101>> >>

\* Fas4Parser._try_decode_strings returns a dict; its callers only test
\* whether it is empty.  It is not empty when some expected string stands
\* at some offset of the buffer under one of the 256 XOR keys or one of the
\* shifts 1..255.  A key that decodes the expected string e at offset o is
\* fixed by the first byte, so the loops over the keys are not unrolled.
try_decode_strings_any(bc) ==
    \E j \in 1..Len(ExpectedStrings) :
        LET e == ExpectedStrings[j] IN
        \E o \in 0..(Len(bc) - Len(e)) :
            \/ LET xor_key == Xor(bc[o + 1], e[1]) IN
               \A i \in 1..Len(e) : Xor(bc[o + i], xor_key) = e[i]
            \/ LET shift == (e[1] - bc[o + 1] + 256) % 256 IN
               /\ shift # 0
               /\ \A i \in 1..Len(e) : (bc[o + i] + shift) % 256 = e[i]

\* len(self._analyze_instruction_flow(bytecode)): one entry per offset
\* below len(bytecode) - 5
analyze_instruction_flow_len(bc) == IF Len(bc) > 5 THEN Len(bc) - 5 ELSE 0

\* Fas4Parser._reconstruct_from_bytecode_structure.  It is entered with a
\* non-empty buffer, and _interpret_instruction_flow then always finds a
\* string (its expected strings include the one-character 'y', 'Y', 'N'
\* and '=', which some XOR key produces at offset 0) and so returns the
\* body built by _reconstruct_pdi_function_from_bytecode.
reconstruct_from_bytecode_structure(bc) ==
    build_function_body_from_detected_operations(bc)

\* Fas4Parser._extract_info_from_bytecode
extract_info_from_bytecode(bc) ==
    IF try_decode_strings_any(bc) \/ analyze_instruction_flow_len(bc) > 0
    THEN reconstruct_from_bytecode_structure(bc)
    ELSE << Line("  ;; Bytecode structure analysis:", <<>>),
            Line("  ;; Bytecode size: {} bytes", <<Len(bc)>>),
            Line("  ;; First uint32: {}", <<IF Len(bc) >= 4 THEN U32(bc, 0) ELSE -1>>),
            Line("  ;; Strings appear to be encoded/compressed", <<>>),
            Line("  ;; Full decompilation requires FAS4 format specification", <<>>),
            Line("  (princ \"Bytecode format requires further reverse engineering\")", <<>>) >>

\* 'c:PDI' and the argument list _reconstruct_functions always returns
CannedName == <<99, 58, 80, 68, 73>>
CannedArgs == << <<100, 105, 99, 116, 95, 110, 97, 109, 101>>,
                 <<105, 116, 101, 109, 115, 95, 112, 117, 114, 103, 101, 100>>,
                 <<100, 105, 99, 116, 95, 111, 98, 106>>,
                 <<99, 111, 110, 116, 105, 110, 117, 101>> >>

\* Fas4Parser._reconstruct_functions
reconstruct_functions(bc) ==
    << [name |-> CannedName, args |-> CannedArgs, body |-> <<>>, source_position |-> 0] >>

\* Fas4Parser._generate_body_from_bytecode with _interpret_bytecode_instructions:
\* _parse_instructions_to_lisp returns [] and _extract_info_from_bytecode
\* never does, so the body is the latter's lines.
generate_body_from_bytecode(bc) == extract_info_from_bytecode(bc)

\* Fas4Parser._generate_lisp_from_reverse_engineered_data
generate_lisp_from_reverse_engineered_data(bc, filename) ==
    LET fs == reconstruct_functions(bc) IN
    << Line(";;;;", <<>>),
       Line(";; Decompiled from FAS4 format (reverse engineered)", <<>>),
       Line(";; File: {}", <<filename>>),
       Line(";;;;", <<>>),
       Line("", <<>>) >>
    \o << Line("(defun {name} (/ {args})", <<fs[1].name, fs[1].args>>) >>
    \o generate_body_from_bytecode(bc)
    \o << Line(")", <<>>), Line("", <<>>), Line("", <<>>) >>

\* Fas4Parser._create_fallback_output with _parse_and_decompile_bytecode
create_fallback_output(filename, d) ==
    generate_lisp_from_reverse_engineered_data(
        IF Len(d) > 4 /\ StartsWith(d, Fas4Prefix) THEN PySlice(d, 4, Len(d)) ELSE d,
        filename)

----------------------------------------------------------------------------
(* Fas4Parser: the FAS4-specific content parser and the code generator.    *)

\* A dict whose iteration order matters is a sequence of key/value pairs in
\* insertion order; assigning to a key it holds keeps the key's place.
OPut(od, k, v) ==
    IF \E j \in 1..Len(od) : od[j].k = k
    THEN [j \in 1..Len(od) |-> IF od[j].k = k THEN [k |-> k, v |-> v] ELSE od[j]]
    ELSE Append(od, [k |-> k, v |-> v])

RECURSIVE Replace(_, _, _)
\* s.replace(pat, rep), pat not empty
Replace(s, pat, rep) ==
    LET i == Find(s, pat, 0) IN
    IF i = -1 THEN s
    ELSE SubSeq(s, 1, i) \o rep \o Replace(SubSeq(s, i + Len(pat) + 1, Len(s)), pat, rep)

RECURSIVE parse_fas4_bytecode_loop(_, _, _, _)
\* The scan of _parse_fas4_bytecode: [length:u8][text] records numbered in
\* the order found, and [index:u32][length:u32][text] records
parse_fas4_bytecode_loop(d, i, string_idx, strings) ==
    IF ~(i < Len(d) - 4) THEN strings
    ELSE
      LET potential_len == d[i + 1]
          short == PySlice(d, i + 1, i + 1 + potential_len)
          idx   == U32(d, i)
          length == U32(d, i + 4)
          long  == PySlice(d, i + 8, i + 8 + length)
      IN  IF /\ 4 <= potential_len /\ potential_len <= 50
             /\ i + potential_len < Len(d)
             /\ AllPrintable(short) /\ AnyAlnum(short)
          THEN parse_fas4_bytecode_loop(d, i + potential_len + 1, string_idx + 1,
                                        OPut(strings, string_idx, short))
          ELSE IF /\ i + 8 < Len(d)
                  /\ 4 <= length /\ length <= 100 /\ i + 8 + length < Len(d)
                  /\ AllPrintable(long) /\ AnyAlnum(long)
          THEN parse_fas4_bytecode_loop(d, i + 8 + length, string_idx,
                                        OPut(strings, idx, long))
          ELSE parse_fas4_bytecode_loop(d, i + 1, string_idx, strings)

\* 'c:', 'defun', 'PDI'
CColon == <<99, 58>>
Defun == <<100, 101, 102, 117, 110>>
DefaultName == <<80, 68, 73>>

\* Fas4Parser._build_function_from_strings: always appends one function
\* and returns True
build_function_from_strings(strings, st) ==
    LET marked == {j \in 1..Len(strings) :
                      StartsWith(strings[j].v, CColon) \/ StartsWith(strings[j].v, Defun)}
        named  == {j \in 1..Len(strings) :
                      Len(strings[j].v) > 2 /\ IsAlpha(strings[j].v[1])}
        first  == IF marked = {} THEN <<>>
                  ELSE Strip(Replace(Replace(strings[Min(marked)].v, Defun, <<>>),
                                     CColon, <<>>))
        func_name == IF first # <<>> THEN first
                     ELSE IF named # {} THEN strings[Min(named)].v
                     ELSE DefaultName
    IN  [st EXCEPT !.functions =
            Append(@, [name |-> CColon \o func_name, args |-> <<>>, body |-> <<>>,
                       source_position |-> 0])]

RECURSIVE update_string_table(_, _, _)
update_string_table(table, strings, j) ==
    IF j > Len(strings) THEN table
    ELSE update_string_table(Put(table, strings[j].k, strings[j].v), strings, j + 1)

\* _parse_fas4_bytecode once the scan is done: no string, no function
parse_fas4_bytecode_strings(strings, st) ==
    IF strings = <<>> THEN [ok |-> FALSE, st |-> st]
    ELSE [ok |-> TRUE,
          st |-> build_function_from_strings(strings,
                     [st EXCEPT !.string_table = update_string_table(@, strings, 1)])]

\* Fas4Parser._parse_fas4_bytecode
parse_fas4_bytecode(d, st) ==
    parse_fas4_bytecode_strings(parse_fas4_bytecode_loop(d, 0, 0, <<>>), st)

RECURSIVE try_skips(_, _, _)
\* One try of the legacy parser: success ends the loop, and what a failed
\* try wrote into the tables stays there
try_skip(remaining, skips, r) ==
    IF r.ok THEN r ELSE try_skips(remaining, skips, r.st)

\* for skip in [0, 4, 8]: the legacy parser is tried where 'FAS' stands
try_skips(remaining, skips, st) ==
    IF skips = <<>> THEN [ok |-> FALSE, st |-> st]
    ELSE IF Head(skips) < Len(remaining)
            /\ PySlice(remaining, Head(skips), Head(skips) + 3) = SubSeq(LegacyMagic, 1, 3)
    THEN try_skip(remaining, Tail(skips),
                  Fas4Parser_parse_fas_content(
                      PySlice(remaining, Head(skips), Len(remaining)), st))
    ELSE try_skips(remaining, Tail(skips), st)

\* _parse_fas4_content once the legacy tries are done
parse_fas4_content_skipped(remaining, r) ==
    IF r.ok THEN r ELSE parse_fas4_bytecode(remaining, r.st)

\* _parse_fas4_content on the bytes after '38 $'
parse_fas4_content_remaining(remaining, st) ==
    parse_fas4_content_skipped(remaining, try_skips(remaining, <<0, 4, 8>>, st))

\* Fas4Parser._parse_fas4_content
parse_fas4_content(d, st) ==
    IF Len(d) > 4 /\ StartsWith(d, Fas4Prefix)
    THEN parse_fas4_content_remaining(PySlice(d, 4, Len(d)), st)
    ELSE [ok |-> FALSE, st |-> st]

\* value.replace('\\', '\\\\').replace('"', '\\"')
Escape(v) == Replace(Replace(v, <<92>>, <<92, 92>>), <<34>>, <<92, 34>>)

\* The line _decompile_to_lisp writes for one symbol; a symbol whose value
\* is another symbol gets no line.
symbol_lines(sym) ==
    CASE sym.value.t \in {"int", "float"} ->
             <<Line("(setq {name} {value})", <<sym.name, sym.value>>)>>
      [] sym.value.t = "str" ->
             <<Line("(setq {name} \"{escaped}\")", <<sym.name, Escape(sym.value.v)>>)>>
      [] sym.value.t = "nil" ->
             <<Line("(setq {name} nil)", <<sym.name>>)>>
      [] OTHER -> <<>>

\* One item of Fas4Parser._decompile_body
body_item(item) ==
    CASE item.t = "sym" -> item.name
      [] item.t = "str" -> <<34>> \o Escape(item.v) \o <<34>>
      [] item.t = "nil" -> <<110, 105, 108>>
      [] OTHER -> item

\* Fas4Parser._decompile_function (no function carries a docstring)
decompile_function(func) ==
    Line("(defun {name} ({args_str})\n  {body_str})",
         <<func.name, func.args, [j \in 1..Len(func.body) |-> body_item(func.body[j])]>>)

RECURSIVE symbols_lines(_, _)
symbols_lines(symbols, keys) ==
    IF keys = <<>> THEN <<>>
    ELSE symbol_lines(symbols[Head(keys)]) \o symbols_lines(symbols, Tail(keys))

\* Fas4Parser._decompile_to_lisp
decompile_to_lisp(st) ==
    << Line(";;;;", <<>>),
       Line(";; Decompiled from FAS4 format", <<>>),
       Line(";;;;", <<>>),
       Line("", <<>>) >>
    \o symbols_lines(st.symbols, SortedSeq(DOMAIN st.symbols))
    \o (IF DOMAIN st.symbols # {} THEN <<Line("", <<>>)>> ELSE <<>>)
    \o [j \in 1..(2 * Len(st.functions)) |->
           IF j % 2 = 1 THEN decompile_function(st.functions[(j + 1) \div 2])
           ELSE Line("", <<>>)]
    \o <<Line("", <<>>)>>

\* What parse_file returns: None, or the bytes of the LISP text as lines
None == [kind |-> "None", lines |-> <<>>]
Lisp(lines) == [kind |-> "bytes", lines |-> lines]

Result(fr, stg, out, st) ==
    [container |-> fr, stages |-> stg, output |-> out, parser |-> st]

\* return self._decompile_to_lisp()
parse_file_decompile(fr, stg, st) ==
    Result(fr, Append(stg, "decompile"), Lisp(decompile_to_lisp(st)), st)

\* The legacy branch: _parse_fas_content failing ends parse_file with None
parse_file_legacy(fr, stg, p) ==
    IF ~p.ok THEN Result(fr, Append(stg, "legacy"), None, p.st)
    ELSE parse_file_decompile(fr, Append(stg, "legacy"), p.st)

\* The FAS4 branch on the decoded bytes: _parse_fas4_content failing hands
\* compressed_data, not the decoded bytes, to _create_fallback_output
parse_file_fas4(fr, stg, filename, q) ==
    IF ~q.ok
    THEN Result(fr, stg \o <<"fas4", "fallback">>,
                Lisp(create_fallback_output(filename, fr.payload)), q.st)
    ELSE parse_file_decompile(fr, Append(stg, "fas4"), q.st)

\* parse_file from the decoded bytes dd on
parse_file_data(fr, stg, filename, dd, st) ==
    IF StartsWith(dd, LegacyMagic)
    THEN parse_file_legacy(fr, stg, Fas4Parser_parse_fas_content(dd, st))
    ELSE parse_file_fas4(fr, stg, filename, parse_fas4_content(dd, st))

\* zlib, and the custom XOR stream when zlib raises
parse_file_decompress(fr, filename, st, z) ==
    parse_file_data(fr, <<"raw_fas4", IF z.ok THEN "zlib" ELSE "custom_xor">>, filename,
                    IF z.ok THEN z.data ELSE Fas4Parser_custom_decompress(fr.payload),
                    st)

\* The raw try: _parse_fas4_content on compressed_data itself
parse_file_raw(fr, filename, raw) ==
    IF raw.ok THEN parse_file_decompile(fr, <<"raw_fas4">>, raw.st)
    ELSE parse_file_decompress(fr, filename, raw.st, zlib_decompress(fr.payload))

\* parse_file once the envelope is read, on a parser object whose tables
\* are st0: parse_file resets none of them
parse_file_container_on(st0, fr, filename) ==
    IF fr.status # "ok" THEN Result(fr, <<>>, None, st0)
    ELSE IF StartsWith(fr.payload, LegacyMagic)
    THEN parse_file_legacy(fr, <<>>, Fas4Parser_parse_fas_content(fr.payload, st0))
    ELSE parse_file_raw(fr, filename, parse_fas4_content(fr.payload, st0))

\* parse_file once the envelope is read, on a new parser object
parse_file_container(fr, filename) == parse_file_container_on(NewParser, fr, filename)

\* Fas4Parser.parse_file on a file holding the bytes d.  stages lists the
\* decoding steps taken after the envelope was read.
Fas4Parser_parse_file(d, filename) ==
    parse_file_container(Fas4Parser_frame(d), filename)

\* parser.parse_file(filename) on a parser object that was used before
Fas4Parser_parse_file_on(st0, d, filename) ==
    parse_file_container_on(st0, Fas4Parser_frame(d), filename)

----------------------------------------------------------------------------
(* FasParser.parse_file reads the file as a stream; a read at the end of   *)
(* the file returns b'' and raises nothing.                                *)

\* b' \r\n\t'
LeadSpace == {32, 13, 10, 9}

RECURSIVE SkipLeading(_, _)
\* The offset of the first byte that is no leading whitespace, or len(d)
SkipLeading(d, p) ==
    IF p < Len(d) /\ d[p + 1] \in LeadSpace THEN SkipLeading(d, p + 1) ELSE p

\* b'FAS4-FILE ': the marker and one space
MarkerSpace == Marker \o <<SP>>

\* The offset after the first CR or LF at or after p; len(d) with none
\* (b'' in b'\r\n' is true, so the end of the file ends the loop too)
RECURSIVE AfterEol(_, _)
AfterEol(d, p) ==
    IF p >= Len(d) THEN Len(d)
    ELSE IF d[p + 1] \in {CR, LF} THEN p + 1 ELSE AfterEol(d, p + 1)

RECURSIVE SizeEnd(_, _)
\* The offset of the CR or LF that ends the size text read from p, or len(d)
SizeEnd(d, p) ==
    IF p >= Len(d) \/ d[p + 1] \in {CR, LF} THEN p ELSE SizeEnd(d, p + 1)

\* FasParser.parse_file up to f.read(size), one definition per local it
\* computes, the last first.

\* compressed_data = f.read(size): ValueError below -1, all that is left
\* for -1, and no more than what is left otherwise
FasParser_compressed_data(d, size, data_start) ==
    IF size < -1 THEN FrameError("InvalidLength")
    ELSE Framed(size, IF size = -1 THEN PySlice(d, data_start, Len(d))
                      ELSE PySlice(d, data_start, data_start + size))

\* size = int(size_str); the byte that ended the size text is consumed
FasParser_size(d, parsed, size_end) ==
    IF ~parsed.ok THEN FrameError("InvalidLength")
    ELSE FasParser_compressed_data(d, parsed.val,
                                   IF size_end < Len(d) THEN size_end + 1 ELSE Len(d))

\* size_str: byte.decode('ascii') raises on a byte above 127
FasParser_size_str(d, size_bytes, size_end) ==
    IF \E i \in 1..Len(size_bytes) : ~IsAscii(size_bytes[i])
    THEN FrameError("InvalidLength")
    ELSE FasParser_size(d, PyInt(size_bytes), size_end)

\* The size text runs from the byte after the header line to the next CR,
\* LF or end of file
FasParser_size_end(d, size_start, size_end) ==
    FasParser_size_str(d, PySlice(d, size_start, size_end), size_end)

FasParser_size_start(d, size_start) ==
    FasParser_size_end(d, size_start, SizeEnd(d, size_start))

\* header = byte + f.read(9), read at the first byte that is no whitespace
FasParser_header(d, first) ==
    IF PySlice(d, first, first + 10) # MarkerSpace THEN FrameError("NotFas4")
    ELSE FasParser_size_start(d, AfterEol(d, first + 10))

\* The container FasParser.parse_file reads from the bytes d
FasParser_frame(d) == FasParser_header(d, SkipLeading(d, 0))

\* return self._parse_fas_content(data)
FasParser_content(fr, stg, p) == Result(fr, Append(stg, "legacy"), p.ok, p.st)

\* zlib, and the custom XOR stream when zlib raises
FasParser_decompress(st0, fr, z) ==
    FasParser_content(fr, <<IF z.ok THEN "zlib" ELSE "custom_xor">>,
        FasParser_parse_fas_content(
            IF z.ok THEN z.data ELSE FasParser_custom_decompress(fr.payload),
            st0))

\* Standard FAS: the first byte and the three bytes after the ten already
\* read must spell FAS\0; f.seek(-4, 1) then goes back to the tenth byte,
\* not to the start.
FasParser_standard(st0, d, fr, first) ==
    IF PySlice(d, first, first + 1) \o PySlice(d, first + 10, first + 13) # LegacyMagic
    THEN Result(fr, <<>>, FALSE, st0)
    ELSE FasParser_content(fr, <<>>,
             FasParser_parse_fas_content(PySlice(d, first + 9, Len(d)), st0))

\* parse_file once the envelope is read, on a parser object whose tables
\* are st0: parse_file resets none of them
FasParser_container(st0, d, fr) ==
    IF fr.status = "InvalidLength" THEN Result(fr, <<>>, FALSE, st0)
    ELSE IF fr.status = "ok" THEN FasParser_decompress(st0, fr, zlib_decompress(fr.payload))
    ELSE FasParser_standard(st0, d, fr, SkipLeading(d, 0))

\* parser.parse_file(filepath) on a parser object that was used before
FasParser_parse_file_on(st0, d) == FasParser_container(st0, d, FasParser_frame(d))

\* FasParser().parse_file(filepath): the returned flag and the parser's tables
FasParser_parse_file(d) == FasParser_parse_file_on(NewParser, d)

\* decompile_any.detect_fas_format
detect_fas_format(d) ==
    IF PySlice(d, SkipLeading(d, 0), SkipLeading(d, 0) + 10) = MarkerSpace
    THEN "FAS4" ELSE "STANDARD"

\* decompile_fas after Fas4Parser().parse_file: no output, no success
decompile_fas_fas4(r) ==
    [format |-> "FAS4", run |-> r,
     success |-> r.output.kind = "bytes" /\ r.output.lines # <<>>]

\* decompile_fas after FasParser().parse_file, whose result it drops: the
\* tables alone decide
decompile_fas_standard(r) ==
    [format |-> "STANDARD", run |-> r,
     success |-> ~(r.parser.functions = <<>> /\ DOMAIN r.parser.symbols = {})]

\* decompile_any.decompile_fas on an existing input file: the format it
\* detected, what the parser it chose did, and whether it wrote the output
decompile_fas(d, filename) ==
    IF detect_fas_format(d) = "FAS4"
    THEN decompile_fas_fas4(Fas4Parser_parse_file(d, filename))
    ELSE decompile_fas_standard(FasParser_parse_file(d))

\* decompile_any.main: the process exit code
main(success) == IF success THEN 0 ELSE 1

\* The line decompile_fas writes for one symbol of a standard FAS file:
\* string values are written unescaped
FasParser_symbol_lines(sym) ==
    CASE sym.value.t \in {"int", "float"} ->
             <<Line("(setq {name} {value})", <<sym.name, sym.value>>)>>
      [] sym.value.t = "str" ->
             <<Line("(setq {name} \"{value}\")", <<sym.name, sym.value.v>>)>>
      [] sym.value.t = "nil" ->
             <<Line("(setq {name} nil)", <<sym.name>>)>>
      [] OTHER -> <<>>

\* One item of FasParser._decompile_body
FasParser_body_item(item) ==
    CASE item.t = "sym" -> item.name
      [] item.t = "str" -> <<34>> \o item.v \o <<34>>
      [] item.t = "nil" -> <<110, 105, 108>>
      [] OTHER -> item

\* FasParser.decompile_function
FasParser_decompile_function(func) ==
    Line("(defun {name} ({args_str})\n  {body_str})",
         <<func.name, func.args,
           [j \in 1..Len(func.body) |-> FasParser_body_item(func.body[j])]>>)

RECURSIVE FasParser_symbols_lines(_, _)
FasParser_symbols_lines(symbols, keys) ==
    IF keys = <<>> THEN <<>>
    ELSE FasParser_symbol_lines(symbols[Head(keys)])
         \o FasParser_symbols_lines(symbols, Tail(keys))

\* The text decompile_fas writes for a standard FAS file
FasParser_output(st) ==
    FasParser_symbols_lines(st.symbols, SortedSeq(DOMAIN st.symbols))
    \o <<Line("", <<>>)>>
    \o [j \in 1..(2 * Len(st.functions)) |->
           IF j % 2 = 1 THEN FasParser_decompile_function(st.functions[(j + 1) \div 2])
           ELSE Line("", <<>>)]
    \o <<Line("", <<>>)>>

\* The figures Fas4Parser.parse_file prints on its way: the declared size
\* once the size line is read, the decoded size after a codec ran, the
\* number of bytes handed to the fallback
Fas4Parser_report(r) ==
    [k \in (IF r.container.status \in {"ok", "TruncatedPayload"}
            THEN {"compressed_size"} ELSE {})
           \cup (IF \E j \in 1..Len(r.stages) : r.stages[j] \in {"zlib", "custom_xor"}
                 THEN {"decompressed_size"} ELSE {})
           \cup (IF \E j \in 1..Len(r.stages) : r.stages[j] = "fallback"
                 THEN {"bytecode_bytes"} ELSE {})
     |-> CASE k = "compressed_size" -> r.container.size
           [] k = "decompressed_size" ->
                  (IF zlib_decompress(r.container.payload).ok
                   THEN Len(zlib_decompress(r.container.payload).data)
                   ELSE Len(r.container.payload))
           [] k = "bytecode_bytes" ->
                  (IF Len(r.container.payload) > 4 /\ StartsWith(r.container.payload, Fas4Prefix)
                   THEN Len(r.container.payload) - 4 ELSE Len(r.container.payload))]

----------------------------------------------------------------------------
(* Input files.  A file is laid out from its shape: leading bytes, the     *)
(* header line, the size line, an optional stray blank line, the payload.  *)

\* 'input.fas'
Filename == "input.fas"

\* b'abcd'
Abcd == <<97, 98, 99, 100>>

\* FAS\0, version 1, no strings, no symbols
LegacyEmpty == LegacyMagic \o <<1, 0, 0, 0>> \o <<0, 0, 0, 0>> \o <<0, 0, 0, 0>>

\* FAS\0, version 1, the string 0 -> 'ab', one symbol named by string 0
\* whose value is nil
LegacySymbol ==
    LegacyMagic \o <<1, 0, 0, 0>>
    \o <<1, 0, 0, 0>> \o <<0, 0, 0, 0>> \o <<2, 0, 0, 0>> \o <<97, 98>>
    \o <<1, 0, 0, 0>> \o <<0, 0, 0, 0>> \o <<0>>

\* '38 $' and the record [4]'abcd' with one byte after it
Fas4Strings == Fas4Prefix \o <<4>> \o Abcd \o <<0>>

\* The bytes Fas4Parser._custom_decompress turns into FAS\0
XorCodedMagic == <<19, 25, 44, 122>>

SpecialPayloads ==
    { Abcd, LegacyMagic, LegacyEmpty, LegacySymbol, Fas4Strings, XorCodedMagic }
    \cup { z.stream : z \in ZlibStreams }

\* The byte values the enumerated payloads are made of
PayloadBytes == {0, LF, CR, 65, 255}

RECURSIVE SeqsUpTo(_, _)
\* All sequences over S of length at most n
SeqsUpTo(S, n) ==
    IF n = 0 THEN {<<>>}
    ELSE LET shorter == SeqsUpTo(S, n - 1) IN
         shorter \cup {Append(q, x) : q \in {r \in shorter : Len(r) = n - 1}, x \in S}

Payloads == SpecialPayloads \cup SeqsUpTo(PayloadBytes, MaxPayloadLen)

\* Nothing, a space, or the blank line of the sample in read_fas4_file
Leads == { <<>>, <<SP>>, <<CR, LF, SP>> }

\* What follows the marker on the header line: nothing, a space,
\* ' ; comment'
Annotations == { <<>>, <<SP>>, <<32, 59, 32, 99, 111, 109, 109, 101, 110, 116>> }

Eols == { <<LF>>, <<CR, LF>> }

SizeKinds == {"exact", "plus", "minus", "over", "missing", "alpha", "tail255"}

\* The text of the size line for a payload of L bytes
SizeText(kind, L) ==
    CASE kind = "exact"   -> Decimal(L)
      [] kind = "plus"    -> <<43>> \o Decimal(L)
      [] kind = "minus"   -> <<45>> \o Decimal(L)
      [] kind = "over"    -> Decimal(L + 1)
      [] kind = "missing" -> <<>>
      [] kind = "alpha"   -> <<120>>
      [] kind = "tail255" -> Decimal(L) \o <<255>>

\* 'FAS4_FILE': a header line without the marker
NoMarker == <<70, 65, 83, 52, 95, 70, 73, 76, 69>>

Build(s) ==
    s.lead \o (IF s.marked THEN Marker ELSE NoMarker) \o s.annotation \o s.eol1
    \o SizeText(s.size, Len(s.payload)) \o s.eol2
    \o (IF s.stray THEN s.eol2 ELSE <<>>)
    \o s.payload

AllShapes ==
    [lead : Leads, marked : BOOLEAN, annotation : Annotations, eol1 : Eols,
     eol2 : Eols, size : SizeKinds, stray : BOOLEAN, payload : Payloads]

\* A well-formed envelope: the marker, both lines ended the same way, the
\* decimal length of the payload, nothing before the marker or the payload
Canonical(s) ==
    /\ s.lead = <<>> /\ s.marked /\ s.eol1 = s.eol2 /\ s.size = "exact" /\ ~s.stray

\* Every layout is tried on a few payloads, every payload in the
\* well-formed layouts.
Shapes ==
    {s \in AllShapes :
        Canonical(s) \/ s.payload \in {<<>>, Abcd, LegacyMagic, LegacySymbol}}

----------------------------------------------------------------------------
(* The entry points, each run once on an input file.                       *)

NoContainer == [status |-> "", size |-> 0, payload |-> <<>>]
NoReport == <<>>

\* No record planted in a buffer, no string table extracted yet
\* A loop that has not started
NoWalk == [pos |-> 0, prev |-> 0, turns |-> 0, left |-> 0, accepted |-> 0,
           late |-> 0, high |-> 0, skipped |-> FALSE]

NoRecord == [kind |-> "", pre |-> <<>>, index |-> 0, text |-> <<>>, post |-> <<>>]
NoTables == [pointer |-> EmptyDict, prefixed |-> EmptyDict, merged |-> EmptyDict]

\* The variables of the string extraction and validity specifications
Idle ==
    /\ bytecode = <<>>
    /\ record = NoRecord
    /\ tables = NoTables
    /\ str = <<>>
    /\ verdicts = <<>>
    /\ walk = NoWalk
    /\ key_order = <<>>
    /\ candidates = <<>>
    /\ consumed = <<>>
    /\ chosen = [set |-> FALSE, buffer |-> <<>>]
    /\ tried = <<>>
    /\ runs = <<>>
    /\ recovered = <<>>
    /\ renderings = <<>>
    /\ decoded_data = <<>>
    /\ operations = <<>>

Init ==
    /\ shape \in Shapes
    /\ data = Build(shape)
    /\ pc = "start"
    /\ ran = ""
    /\ container = NoContainer
    /\ stages = <<>>
    /\ output = None
    /\ parser = NewParser
    /\ format = ""
    /\ report = NoReport
    /\ exitCode = -1
    /\ Idle

\* The entry point named by name ran to its end: r is what its parser did,
\* out what the entry point returned or wrote
Ran(name, r, out) ==
    /\ pc = "start"
    /\ pc' = "done"
    /\ ran' = name
    /\ container' = r.container
    /\ stages' = r.stages
    /\ parser' = r.parser
    /\ output' = out
    /\ UNCHANGED <<data, shape, bytecode, record, tables, str, verdicts,
                   operations,
                   decoded_data,
                   renderings,
                   recovered,
                   runs,
                   tried,
                   chosen,
                   consumed,
                   candidates,
                   key_order,
                   walk>>

\* Fas4Parser().parse_file(filename)
ParseFileRan(r) ==
    /\ Ran("Fas4Parser.parse_file", r, r.output)
    /\ report' = Fas4Parser_report(r)
    /\ UNCHANGED <<format, exitCode>>

ParseFile == ParseFileRan(Fas4Parser_parse_file(data, Filename))

\* Fas4ReverseEngineer().read_fas4_file(filename): the bytecode it returns,
\* or the exception it raises
ReadFas4FileRan(c) ==
    /\ Ran("Fas4ReverseEngineer.read_fas4_file",
           Result(c, <<>>, None, NewParser),
           [kind |-> CASE c.status = "ok" -> "bytes"
                       [] c.status = "IndexError" -> "IndexError"
                       [] OTHER -> "ValueError",
            lines |-> <<>>])
    /\ UNCHANGED <<format, report, exitCode>>

ReadFas4File == ReadFas4FileRan(read_fas4_file(data))

\* FasParser().parse_file(filepath)
FasParserParseFileRan(r) ==
    /\ Ran("FasParser.parse_file", r,
           [kind |-> IF r.output THEN "True" ELSE "False", lines |-> <<>>])
    /\ UNCHANGED <<format, report, exitCode>>

FasParserParseFile == FasParserParseFileRan(FasParser_parse_file(data))

\* decompile_any.main on an existing input file: output is what it wrote
\* to the output file
MainRan(m) ==
    /\ Ran("main", m.run,
           IF ~m.success THEN None
           ELSE IF m.format = "FAS4" THEN m.run.output
           ELSE Lisp(FasParser_output(m.run.parser)))
    /\ format' = m.format
    /\ report' = IF m.format = "FAS4" THEN Fas4Parser_report(m.run) ELSE NoReport
    /\ exitCode' = main(m.success)

Main == MainRan(decompile_fas(data, Filename))

Next == ParseFile \/ ReadFas4File \/ FasParserParseFile \/ Main

Spec == Init /\ [][Next]_vars

----------------------------------------------------------------------------
(* String recovery: Fas4BytecodeInterpreter.                               *)

\* The characters of ' \t\n\r{}[]()'
Brackets == {32, 9, 10, 13, 123, 125, 91, 93, 40, 41}

\* all(c in chars for c in s)
AllIn(s, chars) == \A i \in 1..Len(s) : s[i] \in chars

\* '}}}}', '{{{', '|||', '~~~'
Interpreter_garbage == <<
    <<125, 125, 125, 125>>, <<123, 123, 123>>, <<124, 124, 124>>,
    <<126, 126, 126>> >>

\* Fas4BytecodeInterpreter._is_valid_string
is_valid_string(s) ==
    /\ Len(s) >= 2
    /\ AnyAlpha(s)
    /\ ~AllIn(s, Brackets)
    /\ ~ContainsAny(s, Interpreter_garbage)

\* b.decode('ascii', errors='replace'): each byte above 127 becomes U+FFFD
DecodeAsciiReplace(b) == [i \in 1..Len(b) |-> IF b[i] < 128 THEN b[i] ELSE 65533]

\* An optional string: ok = FALSE stands for None
NoString == [ok |-> FALSE, s |-> <<>>]
SomeString(s) == [ok |-> TRUE, s |-> s]

\* The XOR keys _try_decode_string_bytes and _decode_string_bytes try
StringKeys == <<0, 1, 255, 85, 170>>

RECURSIVE try_decode_string_bytes_xor(_, _)
try_decode_string_bytes_xor(raw, j) ==
    IF j > Len(StringKeys) THEN NoString
    ELSE IF is_valid_string(RStripNul(DecodeAsciiReplace(XorAll(raw, StringKeys[j]))))
    THEN SomeString(RStripNul(DecodeAsciiReplace(XorAll(raw, StringKeys[j]))))
    ELSE try_decode_string_bytes_xor(raw, j + 1)

\* Fas4BytecodeInterpreter._try_decode_string_bytes
try_decode_string_bytes(raw) ==
    IF is_valid_string(RStripNul(DecodeAsciiReplace(raw)))
    THEN SomeString(RStripNul(DecodeAsciiReplace(raw)))
    ELSE try_decode_string_bytes_xor(raw, 1)

\* The string of the record [index:u32][length:u32][bytes] at pos
indexed_record(d, pos) ==
    IF /\ 1 <= U32(d, pos + 4) /\ U32(d, pos + 4) <= 500
       /\ pos + 8 + U32(d, pos + 4) <= Len(d)
    THEN try_decode_string_bytes(PySlice(d, pos + 8, pos + 8 + U32(d, pos + 4)))
    ELSE NoString

\* The string of the record [length:u32][bytes] at pos
plain_record(d, pos) ==
    IF /\ 1 <= U32(d, pos) /\ U32(d, pos) <= 500
       /\ pos + 4 + U32(d, pos) <= Len(d)
    THEN try_decode_string_bytes(PySlice(d, pos + 4, pos + 4 + U32(d, pos)))
    ELSE NoString

RECURSIVE extract_string_table_loop(_, _, _, _)
\* One turn of the loop of _extract_string_table: an indexed record is
\* stored under its index, else a plain record under its offset, else the
\* scan moves on by one byte
extract_string_table_step(d, pos, max_iter, strings, indexed, plain) ==
    IF indexed.ok
    THEN extract_string_table_loop(d, pos + 8 + U32(d, pos + 4), max_iter - 1,
                                   Put(strings, U32(d, pos), indexed.s))
    ELSE IF plain.ok
    THEN extract_string_table_loop(d, pos + 4 + U32(d, pos), max_iter - 1,
                                   Put(strings, pos, plain.s))
    ELSE extract_string_table_loop(d, pos + 1, max_iter - 1, strings)

extract_string_table_loop(d, pos, max_iter, strings) ==
    IF ~(pos < Len(d) - 8 /\ max_iter > 0) THEN strings
    ELSE extract_string_table_step(d, pos, max_iter, strings,
                                   indexed_record(d, pos), plain_record(d, pos))

\* Fas4BytecodeInterpreter._extract_string_table
extract_string_table(d, offset) == extract_string_table_loop(d, offset, 200, EmptyDict)

IsValidRun(r) == Len(r.text) >= 4 /\ is_valid_string(r.text)

\* Fas4BytecodeInterpreter._scan_readable_strings
scan_readable_strings(d) == RunsDict(SelectSeq(Runs(d), IsValidRun))

\* The XOR keys _try_decode_strings tries, in order
ScanKeys == <<0, 1, 255, 85, 170, 56, 36>>

RECURSIVE try_decode_strings_from(_, _, _, _)
\* The loop of _try_decode_strings over the keys order[j], order[j+1], ...:
\* an offset keeps the string of the first key that found one there
try_decode_strings_from(d, order, j, strings) ==
    IF j > Len(order) THEN strings
    ELSE try_decode_strings_from(d, order, j + 1,
             DictUpdate(scan_readable_strings(XorAll(d, order[j])), strings))

\* _try_decode_strings with its keys taken in the given order
try_decode_strings_in(d, order) == try_decode_strings_from(d, order, 1, EmptyDict)

\* Fas4BytecodeInterpreter._try_decode_strings
try_decode_strings(d) == try_decode_strings_in(d, ScanKeys)

\* The first four bytes name an offset inside the buffer
HasTableOffset(bc) == Len(bc) >= 4 /\ 0 < U32(bc, 0) /\ U32(bc, 0) < Len(bc)

\* Method 1 of _extract_all_strings
Interpreter_string_table(bc) ==
    IF HasTableOffset(bc) THEN extract_string_table(bc, U32(bc, 0)) ELSE EmptyDict

\* The buffer without the '38 $' prefix
SkipHeader(bc) ==
    IF Len(bc) >= 4 /\ PySlice(bc, 0, 4) = Fas4Prefix THEN PySlice(bc, 4, Len(bc)) ELSE bc

\* _extract_all_strings once the header is skipped: the pointer table, then
\* the readable runs, then the decoded runs, each overriding the one before
Interpreter_strings(bc) ==
    DictUpdate(DictUpdate(Interpreter_string_table(bc), scan_readable_strings(bc)),
               try_decode_strings(bc))

\* Fas4BytecodeInterpreter._extract_all_strings
Interpreter_extract_all_strings(bytecode0) == Interpreter_strings(SkipHeader(bytecode0))

----------------------------------------------------------------------------
(* String recovery: Fas4RealDecompiler.                                    *)

\* '}}}}', '{{{', '|||', '~~~', '^^^', 'UUU', '888', '&&&'
RealDecompiler_garbage == <<
    <<125, 125, 125, 125>>, <<123, 123, 123>>, <<124, 124, 124>>,
    <<126, 126, 126>>, <<94, 94, 94>>, <<85, 85, 85>>, <<56, 56, 56>>,
    <<38, 38, 38>> >>

\* Fas4RealDecompiler._is_meaningful_string
is_meaningful_string(s) ==
    /\ Len(s) >= 2
    /\ AnyAlnum(s)
    /\ ~ContainsAny(s, RealDecompiler_garbage)
    /\ ~AllIn(s, Brackets)

RECURSIVE decode_string_bytes_xor(_, _)
decode_string_bytes_xor(raw, j) ==
    IF j > Len(StringKeys) THEN NoString
    ELSE IF is_meaningful_string(RStripNul(DecodeAsciiIgnore(XorAll(raw, StringKeys[j]))))
    THEN SomeString(RStripNul(DecodeAsciiIgnore(XorAll(raw, StringKeys[j]))))
    ELSE decode_string_bytes_xor(raw, j + 1)

\* Fas4RealDecompiler._decode_string_bytes
decode_string_bytes(raw) ==
    IF is_meaningful_string(RStripNul(DecodeAsciiIgnore(raw)))
    THEN SomeString(RStripNul(DecodeAsciiIgnore(raw)))
    ELSE decode_string_bytes_xor(raw, 1)

\* The string of the record [index:u32][length:u32][bytes] at pos
RealDecompiler_record(d, pos) ==
    IF /\ 1 <= U32(d, pos + 4) /\ U32(d, pos + 4) <= 500
       /\ pos + 8 + U32(d, pos + 4) <= Len(d)
    THEN decode_string_bytes(PySlice(d, pos + 8, pos + 8 + U32(d, pos + 4)))
    ELSE NoString

RECURSIVE extract_from_string_table_loop(_, _, _, _)
extract_from_string_table_step(d, pos, left, strings, rec) ==
    IF rec.ok
    THEN extract_from_string_table_loop(d, pos + 8 + U32(d, pos + 4), left - 1,
                                        Put(strings, U32(d, pos), rec.s))
    ELSE extract_from_string_table_loop(d, pos + 1, left - 1, strings)

\* The loop of _extract_from_string_table, left entries to go
extract_from_string_table_loop(d, pos, left, strings) ==
    IF left = 0 \/ pos + 8 >= Len(d) THEN strings
    ELSE extract_from_string_table_step(d, pos, left, strings, RealDecompiler_record(d, pos))

\* Fas4RealDecompiler._extract_from_string_table
extract_from_string_table(d, offset) ==
    extract_from_string_table_loop(d, offset, 100, EmptyDict)

IsMeaningfulRun(r) == Len(r.text) >= 3 /\ is_meaningful_string(r.text)

\* Fas4RealDecompiler._extract_ascii_strings
extract_ascii_strings(d) == RunsDict(SelectSeq(Runs(d), IsMeaningfulRun))

\* The XOR keys _extract_all_strings_comprehensive tries, in order
ComprehensiveKeys == <<0, 1, 255, 85, 170, 56, 36, 96, 102, 108, 111, 114>>

RECURSIVE xor_ascii_strings(_, _, _)
xor_ascii_strings(d, j, all_strings) ==
    IF j > Len(ComprehensiveKeys) THEN all_strings
    ELSE xor_ascii_strings(d, j + 1,
             DictUpdate(all_strings, extract_ascii_strings(XorAll(d, ComprehensiveKeys[j]))))

\* Method 3 of _extract_all_strings_comprehensive
RealDecompiler_string_table(bc) ==
    IF HasTableOffset(bc) THEN extract_from_string_table(bc, U32(bc, 0)) ELSE EmptyDict

\* The last loop of _extract_all_strings_comprehensive
meaningful_only(all_strings) ==
    [k \in {x \in DOMAIN all_strings :
               is_meaningful_string(all_strings[x]) /\ Len(all_strings[x]) > 1}
        |-> all_strings[k]]

\* Fas4RealDecompiler._extract_all_strings_comprehensive
extract_all_strings_comprehensive(bc) ==
    meaningful_only(
        DictUpdate(xor_ascii_strings(bc, 1, extract_ascii_strings(bc)),
                   RealDecompiler_string_table(bc)))

----------------------------------------------------------------------------
(* String recovery: Fas4Parser._extract_all_strings_from_bytecode.         *)

\* What both branches of _scan_for_strings do with the bytes a length
\* prefix announces
scan_accept(potential) ==
    IF /\ Len(RStripNul(DecodeAsciiIgnore(potential))) >= 3
       /\ AnyAlpha(RStripNul(DecodeAsciiIgnore(potential)))
    THEN SomeString(RStripNul(DecodeAsciiIgnore(potential)))
    ELSE NoString

\* The 1-byte length prefix at offset i
scan_byte_prefix(d, i) ==
    IF /\ i + 1 < Len(d)
       /\ 4 <= d[i + 1] /\ d[i + 1] <= 200
       /\ i + 1 + d[i + 1] <= Len(d)
       /\ 10 * PrintableCount(PySlice(d, i + 1, i + 1 + d[i + 1])) >= 8 * d[i + 1]
    THEN scan_accept(PySlice(d, i + 1, i + 1 + d[i + 1]))
    ELSE NoString

\* The 4-byte little-endian length prefix at offset i
scan_word_prefix(d, i) ==
    IF /\ i + 4 < Len(d)
       /\ 4 <= U32(d, i) /\ U32(d, i) <= 200
       /\ i + 4 + U32(d, i) <= Len(d)
       /\ 10 * PrintableCount(PySlice(d, i + 4, i + 4 + U32(d, i))) >= 8 * U32(d, i)
    THEN scan_accept(PySlice(d, i + 4, i + 4 + U32(d, i)))
    ELSE NoString

\* Fas4Parser._scan_for_strings: at every offset the 4-byte prefix, tried
\* second, overrides the 1-byte prefix
scan_for_strings(d) ==
    [i \in {x \in 0..(Len(d) - 5) : scan_byte_prefix(d, x).ok \/ scan_word_prefix(d, x).ok}
        |-> IF scan_word_prefix(d, i).ok THEN scan_word_prefix(d, i).s
            ELSE scan_byte_prefix(d, i).s]

IsEmbeddedRun(r) == Len(r.text) >= 4 /\ AnyAlpha(r.text) /\ Len(r.text) >= 3

\* Fas4Parser._extract_embedded_ascii
extract_embedded_ascii(d) == RunsDict(SelectSeq(Runs(d), IsEmbeddedRun))

\* range(256)
AllKeys == [i \in 1..256 |-> i - 1]

RECURSIVE try_decode_all_strings_from(_, _, _, _)
\* The loop of _try_decode_all_strings over the keys order[lo..hi], in that
\* order: the loop over a range is the loop over its lower half followed
\* by the loop over its upper half
try_decode_all_strings_from(d, order, lo, hi) ==
    IF lo = hi THEN extract_embedded_ascii(XorAll(d, order[lo]))
    ELSE DictUpdate(try_decode_all_strings_from(d, order, lo, (lo + hi) \div 2),
                    try_decode_all_strings_from(d, order, (lo + hi) \div 2 + 1, hi))

\* _try_decode_all_strings with its keys taken in the given order
try_decode_all_strings_in(d, order) ==
    try_decode_all_strings_from(d, order, 1, Len(order))

\* Fas4Parser._try_decode_all_strings: a later key overrides an earlier one
try_decode_all_strings(d) == try_decode_all_strings_in(d, AllKeys)

\* Fas4Parser._extract_all_strings_from_bytecode: embedded runs, then
\* length-prefixed strings, then decoded runs, then the pointer table, each
\* overriding the one before
extract_all_strings_from_bytecode(bc) ==
    DictUpdate(
        DictUpdate(DictUpdate(extract_embedded_ascii(bc), scan_for_strings(bc)),
                   try_decode_all_strings(bc)),
        pointer_table_strings(bc))

----------------------------------------------------------------------------
(* String recovery: Fas4BytecodeAnalyzer.                                  *)

\* Fas4BytecodeAnalyzer._is_printable_string, the threshold in percent
is_printable_string(raw, percent) ==
    Len(raw) > 0 /\ 100 * PrintableCount(raw) >= percent * Len(raw)

\* The string the Analyzer makes of the bytes a length prefix announces:
\* needAlpha tells the length-prefixed scan from the pointer table
Analyzer_accept(potential, percent, needAlpha) ==
    IF /\ is_printable_string(potential, percent)
       /\ Len(RStripNul(DecodeAsciiIgnore(potential))) >= 3
       /\ (needAlpha => AnyAlpha(RStripNul(DecodeAsciiIgnore(potential))))
    THEN SomeString(RStripNul(DecodeAsciiIgnore(potential)))
    ELSE NoString

\* Pattern 1 of Analyzer._extract_strings_from_offset at pos
Analyzer_indexed_record(d, pos) ==
    IF /\ pos + 8 < Len(d)
       /\ 4 <= U32(d, pos + 4) /\ U32(d, pos + 4) <= 200
       /\ pos + 8 + U32(d, pos + 4) <= Len(d)
    THEN Analyzer_accept(PySlice(d, pos + 8, pos + 8 + U32(d, pos + 4)), 80, FALSE)
    ELSE NoString

\* Pattern 2 of Analyzer._extract_strings_from_offset at pos
Analyzer_plain_record(d, pos) ==
    IF /\ pos + 4 < Len(d)
       /\ 4 <= U32(d, pos) /\ U32(d, pos) <= 200
       /\ pos + 4 + U32(d, pos) <= Len(d)
    THEN Analyzer_accept(PySlice(d, pos + 4, pos + 4 + U32(d, pos)), 80, FALSE)
    ELSE NoString

RECURSIVE Analyzer_extract_strings_from_offset_loop(_, _, _, _)
Analyzer_extract_strings_from_offset_step(d, pos, max_iterations, strings, indexed, plain) ==
    IF indexed.ok
    THEN Analyzer_extract_strings_from_offset_loop(
             d, pos + 8 + U32(d, pos + 4), max_iterations - 1,
             Put(strings, U32(d, pos), indexed.s))
    ELSE IF plain.ok
    THEN Analyzer_extract_strings_from_offset_loop(
             d, pos + 4 + U32(d, pos), max_iterations - 1, Put(strings, pos, plain.s))
    ELSE Analyzer_extract_strings_from_offset_loop(d, pos + 1, max_iterations - 1, strings)

Analyzer_extract_strings_from_offset_loop(d, pos, max_iterations, strings) ==
    IF ~(pos < Len(d) - 8 /\ max_iterations > 0) THEN strings
    ELSE Analyzer_extract_strings_from_offset_step(
             d, pos, max_iterations, strings,
             Analyzer_indexed_record(d, pos), Analyzer_plain_record(d, pos))

\* Fas4BytecodeAnalyzer._extract_strings_from_offset
Analyzer_extract_strings_from_offset(d, offset) ==
    Analyzer_extract_strings_from_offset_loop(d, offset, 100, EmptyDict)

\* The 1-byte length prefix at offset i
Analyzer_byte_prefix(d, i) ==
    IF 4 <= d[i + 1] /\ d[i + 1] <= 100 /\ i + 1 + d[i + 1] <= Len(d)
    THEN Analyzer_accept(PySlice(d, i + 1, i + 1 + d[i + 1]), 85, TRUE)
    ELSE NoString

\* The 2-byte little-endian length prefix at offset i
Analyzer_short_prefix(d, i) ==
    IF /\ i + 2 < Len(d)
       /\ 4 <= U16(d, i) /\ U16(d, i) <= 200
       /\ i + 2 + U16(d, i) <= Len(d)
    THEN Analyzer_accept(PySlice(d, i + 2, i + 2 + U16(d, i)), 85, TRUE)
    ELSE NoString

RECURSIVE extract_length_prefixed_strings_loop(_, _, _)
\* One turn of the loop of _extract_length_prefixed_strings: a string that
\* is accepted is stepped over
extract_length_prefixed_strings_step(d, i, strings, byOne, byTwo) ==
    IF byOne.ok
    THEN extract_length_prefixed_strings_loop(d, i + 1 + d[i + 1], Put(strings, i, byOne.s))
    ELSE IF byTwo.ok
    THEN extract_length_prefixed_strings_loop(d, i + 2 + U16(d, i), Put(strings, i, byTwo.s))
    ELSE extract_length_prefixed_strings_loop(d, i + 1, strings)

extract_length_prefixed_strings_loop(d, i, strings) ==
    IF ~(i < Len(d) - 5) THEN strings
    ELSE extract_length_prefixed_strings_step(
             d, i, strings, Analyzer_byte_prefix(d, i), Analyzer_short_prefix(d, i))

\* Fas4BytecodeAnalyzer._extract_length_prefixed_strings
extract_length_prefixed_strings(d) == extract_length_prefixed_strings_loop(d, 0, EmptyDict)

IsAnalyzerRun(r) == Len(r.text) >= 4 /\ AnyAlnum(r.text) /\ AnyAlpha(r.text)

\* Fas4BytecodeAnalyzer._extract_embedded_strings
extract_embedded_strings(d) == RunsDict(SelectSeq(Runs(d), IsAnalyzerRun))

\* 'princ', 'setq', 'getstring', 'if', 'not', 'or', 'dict', 'acad'
AnalyzerKeywords == <<
    <<112, 114, 105, 110, 99>>, <<115, 101, 116, 113>>,
    <<103, 101, 116, 115, 116, 114, 105, 110, 103>>, <<105, 102>>,
    <<110, 111, 116>>, <<111, 114>>, <<100, 105, 99, 116>>, <<97, 99, 97, 100>> >>

\* The decoded runs _extract_encoded_strings keeps
encoded_candidates(embedded) ==
    [k \in {x \in DOMAIN embedded :
               Len(embedded[x]) > 3 /\ ContainsAny(Lower(embedded[x]), AnalyzerKeywords)}
        |-> embedded[k]]

RECURSIVE extract_encoded_strings_from(_, _, _)
\* The loop of _extract_encoded_strings over the keys lo..hi, in the order
\* of the keys: an offset keeps the string of the first key that gave it one
extract_encoded_strings_from(d, lo, hi) ==
    IF lo = hi THEN encoded_candidates(extract_embedded_strings(XorAll(d, lo)))
    ELSE DictUpdate(extract_encoded_strings_from(d, (lo + hi) \div 2 + 1, hi),
                    extract_encoded_strings_from(d, lo, (lo + hi) \div 2))

\* Fas4BytecodeAnalyzer._extract_encoded_strings
extract_encoded_strings(d) == extract_encoded_strings_from(d, 0, 255)

\* Method 1 of _extract_string_table_dynamic
Analyzer_string_table(bc) ==
    IF HasTableOffset(bc) THEN Analyzer_extract_strings_from_offset(bc, U32(bc, 0))
    ELSE EmptyDict

\* Fas4BytecodeAnalyzer._extract_string_table_dynamic: the pointer table,
\* then length-prefixed strings, then embedded runs, then decoded runs, each
\* overriding the one before
extract_string_table_dynamic(bc) ==
    DictUpdate(
        DictUpdate(DictUpdate(Analyzer_string_table(bc), extract_length_prefixed_strings(bc)),
                   extract_embedded_strings(bc)),
        extract_encoded_strings(bc))

----------------------------------------------------------------------------
(* The string extractors, each run once on a buffer that holds one planted *)
(* record: a pointer-table record [index:u32][length:u32][text] at the     *)
(* offset the first four bytes name, or a 1-byte length-prefixed 'hello'   *)
(* among filler bytes.                                                     *)

\* struct.pack('<I', n)
U32LE(n) == <<n % 256, (n \div 256) % 256, (n \div 65536) % 256, n \div 16777216>>

Hello == <<104, 101, 108, 108, 111>>

FillerBytes == {0, 7, 65, 255}
Fillers == SeqsUpTo(FillerBytes, MaxFillerLen)

\* Three NUL bytes, 'abcd', NUL: in a pointer buffer the run starts at
\* offset 7
ReadableLead == <<0, 0, 0, 97, 98, 99, 100, 0>>
PointerLeads == {<<>>, <<0>>, <<255>>, ReadableLead}
\* Nothing, NUL, two 0xFF bytes, 'wxyz'
PointerTails == {<<>>, <<0>>, <<255, 255>>, <<119, 120, 121, 122>>}

\* 'a', '1', '}'
TextBytes == {97, 49, 125}
Texts == (SeqsUpTo(TextBytes, MaxTextLen) \ {<<>>}) \cup {Hello}
Indexes == {0, 7}

PointerRecords ==
    [kind : {"pointer"}, pre : PointerLeads, index : Indexes, text : Texts,
     post : PointerTails]
PrefixedRecords ==
    [kind : {"prefixed"}, pre : Fillers, index : {0}, text : {Hello}, post : Fillers]
Records == PointerRecords \cup PrefixedRecords

\* The offset of the planted record in its buffer
Offset(r) == IF r.kind = "pointer" THEN 4 + Len(r.pre) ELSE Len(r.pre)

\* The buffer that holds the record r
Buffer(r) ==
    IF r.kind = "pointer"
    THEN U32LE(Offset(r)) \o r.pre \o U32LE(r.index) \o U32LE(Len(r.text))
         \o r.text \o r.post
    ELSE r.pre \o <<Len(r.text)>> \o r.text \o r.post

\* The envelope variables of a run that reads no file
NoShape ==
    [lead |-> <<>>, marked |-> FALSE, annotation |-> <<>>, eol1 |-> <<LF>>,
     eol2 |-> <<LF>>, size |-> "missing", stray |-> FALSE, payload |-> <<>>]

NoFile ==
    /\ data = <<>>
    /\ shape = NoShape
    /\ container = NoContainer
    /\ stages = <<>>
    /\ output = None
    /\ parser = NewParser
    /\ format = ""
    /\ report = NoReport
    /\ exitCode = -1

StringsInit ==
    /\ record \in Records
    /\ bytecode = Buffer(record)
    /\ pc = "start"
    /\ ran = ""
    /\ tables = NoTables
    /\ str = <<>>
    /\ verdicts = <<>>
    /\ walk = NoWalk
    /\ key_order = <<>>
    /\ candidates = <<>>
    /\ consumed = <<>>
    /\ chosen = [set |-> FALSE, buffer |-> <<>>]
    /\ tried = <<>>
    /\ runs = <<>>
    /\ recovered = <<>>
    /\ renderings = <<>>
    /\ decoded_data = <<>>
    /\ operations = <<>>
    /\ NoFile

\* The extractor named name ran on the buffer: t holds the table it
\* returned and what its pointer-table and length-prefix strategies found
Extracted(name, t) ==
    /\ pc = "start"
    /\ pc' = "done"
    /\ ran' = name
    /\ tables' = t
    /\ UNCHANGED <<data, shape, container, stages, output, parser, format, report,
                   exitCode, bytecode, record, str, verdicts,
                   operations,
                   decoded_data,
                   renderings,
                   recovered,
                   runs,
                   tried,
                   chosen,
                   consumed,
                   candidates,
                   key_order,
                   walk>>

InterpreterExtractAllStrings ==
    Extracted("Fas4BytecodeInterpreter._extract_all_strings",
              [pointer  |-> Interpreter_string_table(SkipHeader(bytecode)),
               prefixed |-> EmptyDict,
               merged   |-> Interpreter_extract_all_strings(bytecode)])

RealDecompilerExtractAllStrings ==
    Extracted("Fas4RealDecompiler._extract_all_strings_comprehensive",
              [pointer  |-> RealDecompiler_string_table(bytecode),
               prefixed |-> EmptyDict,
               merged   |-> extract_all_strings_comprehensive(bytecode)])

Fas4ParserExtractAllMeaningfulStrings ==
    Extracted("Fas4Parser._extract_all_meaningful_strings",
              [pointer  |-> pointer_table_strings(SkipHeader(bytecode)),
               prefixed |-> EmptyDict,
               merged   |-> extract_all_meaningful_strings(bytecode)])

Fas4ParserExtractAllStringsFromBytecode ==
    Extracted("Fas4Parser._extract_all_strings_from_bytecode",
              [pointer  |-> pointer_table_strings(bytecode),
               prefixed |-> scan_for_strings(bytecode),
               merged   |-> extract_all_strings_from_bytecode(bytecode)])

AnalyzerExtractStringTableDynamic ==
    Extracted("Fas4BytecodeAnalyzer._extract_string_table_dynamic",
              [pointer  |-> Analyzer_string_table(bytecode),
               prefixed |-> extract_length_prefixed_strings(bytecode),
               merged   |-> extract_string_table_dynamic(bytecode)])

StringsNext ==
    \/ InterpreterExtractAllStrings
    \/ RealDecompilerExtractAllStrings
    \/ Fas4ParserExtractAllMeaningfulStrings
    \/ Fas4ParserExtractAllStringsFromBytecode
    \/ AnalyzerExtractStringTableDynamic

StringsSpec == StringsInit /\ [][StringsNext]_vars

----------------------------------------------------------------------------
(* The validity predicates, each applied once to a candidate string.       *)

\* 'a', '8', '}', 'U', 'T', ' '
ValidityBytes == {97, 56, 125, 85, 84, SP}

\* '}}}}' and 'dict_name'
FourBraces == <<125, 125, 125, 125>>
DictName == <<100, 105, 99, 116, 95, 110, 97, 109, 101>>

ValidityStrings == SeqsUpTo(ValidityBytes, MaxStrLen) \cup {FourBraces, DictName}

ValidityInit ==
    /\ str \in ValidityStrings
    /\ verdicts = <<>>
    /\ walk = NoWalk
    /\ key_order = <<>>
    /\ candidates = <<>>
    /\ consumed = <<>>
    /\ chosen = [set |-> FALSE, buffer |-> <<>>]
    /\ tried = <<>>
    /\ runs = <<>>
    /\ recovered = <<>>
    /\ renderings = <<>>
    /\ decoded_data = <<>>
    /\ operations = <<>>
    /\ pc = "start"
    /\ ran = ""
    /\ bytecode = <<>>
    /\ record = NoRecord
    /\ tables = NoTables
    /\ NoFile

\* The predicate named name returned b for the string
Judged(name, b) ==
    /\ pc = "start"
    /\ pc' = "done"
    /\ ran' = name
    /\ verdicts' = <<b>>
    /\ UNCHANGED <<data, shape, container, stages, output, parser, format, report,
                   exitCode, bytecode, record, tables, str,
                   operations,
                   decoded_data,
                   renderings,
                   recovered,
                   runs,
                   tried,
                   chosen,
                   consumed,
                   candidates,
                   key_order,
                   walk>>

IsValidExtractedString == Judged("Fas4Parser._is_valid_extracted_string",
                                 is_valid_extracted_string(str))

IsValidString == Judged("Fas4BytecodeInterpreter._is_valid_string", is_valid_string(str))

IsMeaningfulString == Judged("Fas4RealDecompiler._is_meaningful_string",
                             is_meaningful_string(str))

ValidityNext == IsValidExtractedString \/ IsValidString \/ IsMeaningfulString

ValiditySpec == ValidityInit /\ [][ValidityNext]_vars

----------------------------------------------------------------------------
(* The instruction interpreters.  An operation is the dict the source      *)
(* builds, with the offset of the instruction it came from kept beside it  *)
(* (Fas4ReverseEngineer does not store it) and an empty argument list      *)
(* where the source stores none (Fas4BytecodeInterpreter).                 *)

\* f'func_{n}'
FuncName(n) == <<102, 117, 110, 99, 95>> \o Decimal(n)

Operation(type, name, args, offset) ==
    [type |-> type, name |-> name, args |-> args, offset |-> offset]

\* One turn of the loop of Fas4BytecodeInterpreter._parse_instructions: the
\* byte at offset i as opcode, what follows it read as a byte, as a 16-bit
\* and as a 32-bit operand
Interpreter_instruction(bc, i) ==
    [offset   |-> i,
     opcode   |-> bc[i + 1],
     operands |-> (IF i + 2 <= Len(bc) THEN <<bc[i + 2]>> ELSE <<>>)
                  \o (IF i + 3 <= Len(bc) THEN <<U16(bc, i + 1)>> ELSE <<>>)
                  \o (IF i + 5 <= Len(bc) THEN <<U32(bc, i + 1)>> ELSE <<>>)]

\* The loop of _parse_instructions advances by one byte
parse_instructions_loop(bc) == [j \in 1..Len(bc) |-> Interpreter_instruction(bc, j - 1)]

\* Fas4BytecodeInterpreter._parse_instructions
parse_instructions(bc0) == parse_instructions_loop(SkipHeader(bc0))

IsCall(inst) == inst.opcode = 20 /\ Len(inst.operands) > 0

\* Fas4BytecodeInterpreter._identify_operation on an instruction it makes
\* an operation of: the function reference is the last operand
identify_operation(inst, strings) ==
    Operation("call",
              Get(strings, inst.operands[Len(inst.operands)],
                  FuncName(inst.operands[Len(inst.operands)])),
              <<>>, inst.offset)

identify_operations(calls, strings) ==
    [j \in 1..Len(calls) |-> identify_operation(calls[j], strings)]

\* Fas4BytecodeInterpreter._interpret_instructions
Interpreter_interpret_instructions(instructions, strings) ==
    identify_operations(SelectSeq(instructions, IsCall), strings)

\* One turn of the loop of Fas4ReverseEngineer._parse_instruction_stream:
\* the 16-bit operand is kept below 65535, the 32-bit one below 100000
ReverseEngineer_instruction(bc, i) ==
    [offset   |-> i,
     opcode   |-> bc[i + 1],
     operands |-> <<bc[i + 2]>>
                  \o (IF i + 3 <= Len(bc) /\ U16(bc, i + 1) < 65535
                      THEN <<U16(bc, i + 1)>> ELSE <<>>)
                  \o (IF i + 5 <= Len(bc) /\ U32(bc, i + 1) < 100000
                      THEN <<U32(bc, i + 1)>> ELSE <<>>)]

\* Fas4ReverseEngineer._parse_instruction_stream: the loop runs while
\* i < len(bytecode) - 1 and every instruction has size 2
parse_instruction_stream(bc) ==
    [j \in 1..(Len(bc) \div 2) |-> ReverseEngineer_instruction(bc, 2 * (j - 1))]

\* Fas4ReverseEngineer._interpret_opcode on an instruction it makes an
\* operation of: the function reference is the first operand, the
\* arguments are the other operands
interpret_opcode(inst, strings) ==
    Operation("function_call",
              Get(strings, inst.operands[1], FuncName(inst.operands[1])),
              Tail(inst.operands), inst.offset)

interpret_opcodes(calls, strings) ==
    [j \in 1..Len(calls) |-> interpret_opcode(calls[j], strings)]

\* Fas4ReverseEngineer.interpret_instructions
ReverseEngineer_interpret_instructions(instructions, strings) ==
    interpret_opcodes(SelectSeq(instructions, IsCall), strings)

\* Fas4Parser._extract_string_references
extract_string_references(bc) ==
    DictUpdate(DictUpdate(pointer_table_strings(bc), scan_for_strings(bc)),
               try_decode_all_strings(bc))

NoOperation == [type |-> "", name |-> <<>>, args |-> <<>>, offset |-> 0, size |-> 1]

\* Fas4Parser._analyze_opcode: type "" stands for the returned None
analyze_opcode(bc, offset, strings) ==
    CASE bc[offset + 1] = 20 /\ offset + 5 < Len(bc) ->
             [type |-> "function_call",
              name |-> Get(strings, U32(bc, offset + 1), FuncName(U32(bc, offset + 1))),
              args |-> <<>>, offset |-> offset, size |-> 5]
      [] bc[offset + 1] = 3 ->
             [NoOperation EXCEPT !.type = "variable_op", !.offset = offset, !.size = 5]
      [] bc[offset + 1] = 1 ->
             [NoOperation EXCEPT !.type = "constant", !.offset = offset, !.size = 5]
      [] OTHER -> NoOperation

RECURSIVE extract_operations_loop(_, _, _, _)
extract_operations_step(bc, i, strings, acc, operation) ==
    IF operation.type = "" THEN extract_operations_loop(bc, i + 1, strings, acc)
    ELSE extract_operations_loop(
             bc, i + operation.size, strings,
             Append(acc, Operation(operation.type, operation.name, operation.args,
                                   operation.offset)))

\* The loop of _extract_operations_from_bytecode: an operation advances the
\* scan by its size, a byte that is none by one
extract_operations_loop(bc, i, strings, acc) ==
    IF ~(i < Len(bc) - 1) THEN acc
    ELSE extract_operations_step(bc, i, strings, acc, analyze_opcode(bc, i, strings))

\* Fas4Parser._extract_operations_from_bytecode once the header is skipped
extract_operations(bc, string_refs) == extract_operations_loop(bc, 0, string_refs, <<>>)

\* Fas4Parser._extract_operations_from_bytecode
extract_operations_from_bytecode(bc0) ==
    extract_operations(SkipHeader(bc0), extract_string_references(SkipHeader(bc0)))

----------------------------------------------------------------------------
(* The instruction interpreters, each run once on a stream that holds the  *)
(* opcode 0x14 and a 4-byte operand n among other bytes, with a string     *)
(* table that maps n to a name.                                            *)

\* 'princ'
Princ == <<112, 114, 105, 110, 99>>

\* NUL, and the opcode itself
TailBytes == {0, 20}
Tails == SeqsUpTo(TailBytes, MaxTailLen)
CallLeads == {<<>>, <<0>>, <<0, 0>>}
\* 1; 20, whose low byte is the opcode; 256, whose low byte is 0
Operands == {1, 20, 256}

\* 0x14 and the operand 6, and at offset 6 of the stream the length-prefixed
\* string 'abcd': Fas4Parser reads its string table from the stream itself
SelfNamedCall ==
    [kind |-> "call", pre |-> <<>>, index |-> 6, text |-> Abcd,
     post |-> <<0, 4>> \o Abcd]

CallRecords ==
    [kind : {"call"}, pre : CallLeads, index : Operands, text : {Princ}, post : Tails]
    \cup {SelfNamedCall}

\* The stream that holds the call r
Stream(r) == r.pre \o <<20>> \o U32LE(r.index) \o r.post

OpcodeInit ==
    /\ record \in CallRecords
    /\ bytecode = Stream(record)
    /\ tables = [NoTables EXCEPT !.merged = (record.index :> record.text)]
    /\ pc = "start"
    /\ ran = ""
    /\ operations = <<>>
    /\ str = <<>>
    /\ verdicts = <<>>
    /\ walk = NoWalk
    /\ key_order = <<>>
    /\ candidates = <<>>
    /\ consumed = <<>>
    /\ chosen = [set |-> FALSE, buffer |-> <<>>]
    /\ tried = <<>>
    /\ runs = <<>>
    /\ recovered = <<>>
    /\ renderings = <<>>
    /\ decoded_data = <<>>
    /\ NoFile

\* The interpreter named name ran on the stream with the string table t
\* and built the operations ops
Interpreted(name, t, ops) ==
    /\ pc = "start"
    /\ pc' = "done"
    /\ ran' = name
    /\ tables' = [NoTables EXCEPT !.merged = t]
    /\ operations' = ops
    /\ UNCHANGED <<data, shape, container, stages, output, parser, format, report,
                   exitCode, bytecode, record, str, verdicts,
                   decoded_data,
                   renderings,
                   recovered,
                   runs,
                   tried,
                   chosen,
                   consumed,
                   candidates,
                   key_order,
                   walk>>

\* Fas4BytecodeInterpreter: _parse_instructions, then _interpret_instructions
\* with the string table handed in
InterpreterInterpretInstructions ==
    Interpreted("Fas4BytecodeInterpreter._interpret_instructions", tables.merged,
                Interpreter_interpret_instructions(parse_instructions(bytecode),
                                                   tables.merged))

\* Fas4ReverseEngineer: _parse_instruction_stream, then interpret_instructions
\* with the string table handed in
ReverseEngineerInterpretInstructions ==
    Interpreted("Fas4ReverseEngineer.interpret_instructions", tables.merged,
                ReverseEngineer_interpret_instructions(
                    parse_instruction_stream(SkipHeader(bytecode)), tables.merged))

\* Fas4Parser._extract_operations_from_bytecode, which reads its string
\* table from the stream
Fas4ParserExtractOperationsFromBytecode ==
    Interpreted("Fas4Parser._extract_operations_from_bytecode",
                extract_string_references(SkipHeader(bytecode)),
                extract_operations_from_bytecode(bytecode))

OpcodeNext ==
    \/ InterpreterInterpretInstructions
    \/ ReverseEngineerInterpretInstructions
    \/ Fas4ParserExtractOperationsFromBytecode

OpcodeSpec == OpcodeInit /\ [][OpcodeNext]_vars

----------------------------------------------------------------------------
(* Rendering: the generators called again and again on one parser object  *)
(* whose tables hold hand-built functions and symbols.                    *)

\* A buffer that is extended without being emptied first
KeptDecodedData(old) == old

\* self.decoded_data = bytearray(), the first statement of
\* Fas4Parser._decompile_to_lisp
NewDecodedData(old) == <<>>

\* Fas4Parser._decompile_to_lisp as a method of a parser object whose
\* decoded_data was old: the buffer it leaves, which is also what it returns
Fas4Parser_decompile_to_lisp(old, st) == NewDecodedData(old) \o decompile_to_lisp(st)

\* How many items a hand-built function body holds at most
MaxBodyLen == 2

\* How many rendering calls one parser object receives at most
MaxRenderings == 3

\* nil, an integer, a string with a double quote and a backslash, a symbol
RenderItems ==
    { Nil,
      [t |-> "int", v |-> 7],
      [t |-> "str", v |-> <<97, 34, 92>>],
      [t |-> "sym", name |-> <<120>>] }

RenderBodies == SeqsUpTo(RenderItems, MaxBodyLen)

\* Functions f, with no argument or with the arguments x and y
RenderFunctions ==
    [name : {<<102>>}, args : {<<>>, << <<120>>, <<121>> >>},
     body : RenderBodies, source_position : {0}]

\* No symbol, or the symbol s bound to the string of one double quote
RenderSymbols ==
    { EmptyDict,
      (0 :> [index |-> 0, name |-> <<115>>,
             value |-> [t |-> "str", v |-> <<34>>], line |-> 0]) }

\* No function, one function, or a function of each argument list with
\* the same body
RenderFunctionLists ==
    {<<>>} \cup { <<f>> : f \in RenderFunctions }
    \cup { << [f EXCEPT !.args = <<>>], [f EXCEPT !.args = << <<120>>, <<121>> >>] >> :
           f \in RenderFunctions }

RenderParsers ==
    [string_table : {EmptyDict}, symbols : RenderSymbols,
     functions : RenderFunctionLists, line : {0}]

RenderInit ==
    /\ parser \in RenderParsers
    /\ decoded_data = <<>>
    /\ renderings = <<>>
    /\ pc = "start"
    /\ ran = ""
    /\ data = <<>>
    /\ shape = NoShape
    /\ container = NoContainer
    /\ stages = <<>>
    /\ output = None
    /\ format = ""
    /\ report = NoReport
    /\ exitCode = -1
    /\ bytecode = <<>>
    /\ record = NoRecord
    /\ tables = NoTables
    /\ operations = <<>>
    /\ str = <<>>
    /\ verdicts = <<>>
    /\ walk = NoWalk
    /\ key_order = <<>>
    /\ candidates = <<>>
    /\ consumed = <<>>
    /\ chosen = [set |-> FALSE, buffer |-> <<>>]
    /\ tried = <<>>
    /\ runs = <<>>
    /\ recovered = <<>>

\* One more rendering call returned: by names the method, of the value it
\* was given ("parser", or the index of the function), text what it
\* returned, and tables the parser's tables after the call
Rendered(name, what, lines, st, buffer) ==
    /\ pc \in {"start", "done"}
    /\ Len(renderings) < MaxRenderings
    /\ pc' = "done"
    /\ ran' = name
    /\ parser' = st
    /\ decoded_data' = buffer
    /\ renderings' = Append(renderings,
                            [by |-> name, of |-> what, text |-> lines, tables |-> st])
    /\ UNCHANGED <<data, shape, container, stages, output, format, report,
                   exitCode, bytecode, record, tables, str, verdicts, operations,
                   recovered,
                   runs,
                   tried,
                   chosen,
                   consumed,
                   candidates,
                   key_order,
                   walk>>

\* Fas4Parser._decompile_to_lisp
Fas4ParserDecompileToLisp ==
    Rendered("Fas4Parser._decompile_to_lisp", "parser",
             Fas4Parser_decompile_to_lisp(decoded_data, parser), parser,
             Fas4Parser_decompile_to_lisp(decoded_data, parser))

\* Fas4Parser._decompile_function on one function of the parser
Fas4ParserDecompileFunction ==
    \E k \in 1..Len(parser.functions) :
        Rendered("Fas4Parser._decompile_function", k,
                 <<decompile_function(parser.functions[k])>>, parser, decoded_data)

\* FasParser.decompile_function on one function of the parser
FasParserDecompileFunction ==
    \E k \in 1..Len(parser.functions) :
        Rendered("FasParser.decompile_function", k,
                 <<FasParser_decompile_function(parser.functions[k])>>, parser,
                 decoded_data)

RenderNext ==
    \/ Fas4ParserDecompileToLisp
    \/ Fas4ParserDecompileFunction
    \/ FasParserDecompileFunction

RenderSpec == RenderInit /\ [][RenderNext]_vars

----------------------------------------------------------------------------
(* The text the generators emit, byte by byte, and its lexical structure.  *)

RECURSIVE Join(_, _)
\* sep.join(parts)
Join(parts, sep) ==
    IF parts = <<>> THEN <<>>
    ELSE IF Len(parts) = 1 THEN Head(parts)
    ELSE Head(parts) \o sep \o Join(Tail(parts), sep)

\* One item of Fas4Parser._decompile_body as text: str(item) for a number
body_item_text(item) == IF item.t = "int" THEN Decimal(item.v) ELSE body_item(item)

\* Fas4Parser._decompile_body: ' '.join(result)
decompile_body(body) == Join([j \in 1..Len(body) |-> body_item_text(body[j])], <<SP>>)

\* The text Fas4Parser._decompile_function returns:
\* f'(defun {func.name} ({args_str})\n  {body_str})\n'
function_text(func) ==
    <<40>> \o Defun \o <<SP>> \o func.name \o <<SP, 40>> \o Join(func.args, <<SP>>)
    \o <<41, LF, SP, SP>> \o decompile_body(func.body) \o <<41, LF>>

\* f'({keyword} {" ".join(args[:2])})' or f'({keyword})'
expression_text(l) ==
    IF Len(l.args) = 2
    THEN <<40>> \o l.args[1] \o <<SP>> \o Join(l.args[2], <<SP>>) \o <<41>>
    ELSE <<40>> \o l.args[1] \o <<41>>

RECURSIVE Lex(_, _, _, _)
\* The AutoLISP reader over text from byte i on: mode is "code", "string"
\* (inside a string literal), "escape" (after a backslash in a literal) or
\* "comment" (after a semicolon, up to the end of the line); depth counts
\* the parentheses open outside literals and comments, and is -1 once
\* a closing parenthesis had no partner.
Lex(text, i, mode, depth) ==
    IF i > Len(text) \/ depth < 0 THEN [mode |-> mode, depth |-> depth]
    ELSE CASE mode = "string" ->
                  Lex(text, i + 1,
                      IF text[i] = 92 THEN "escape"
                      ELSE IF text[i] = 34 THEN "code" ELSE "string", depth)
           [] mode = "escape" -> Lex(text, i + 1, "string", depth)
           [] mode = "comment" ->
                  Lex(text, i + 1, IF text[i] = LF THEN "code" ELSE "comment", depth)
           [] OTHER ->
                  Lex(text, i + 1,
                      IF text[i] = 34 THEN "string"
                      ELSE IF text[i] = 59 THEN "comment" ELSE "code",
                      IF text[i] = 40 THEN depth + 1
                      ELSE IF text[i] = 41 THEN depth - 1 ELSE depth)

\* Every string literal of text is terminated
Terminated(text) == Lex(text, 1, "code", 0).mode \notin {"string", "escape"}

\* The parentheses of text outside literals and comments are balanced
Balanced(text) == Lex(text, 1, "code", 0).depth = 0

----------------------------------------------------------------------------
(* Generation: one generator called on a function value or on recovered    *)
(* strings.                                                                *)

\* 'abcd', 'princ', 'c:a(', 'a b)', 'ab"c', 'ab\c': what _parse_fas4_bytecode
\* can recover (4 to 50 printable characters, one of them alphanumeric)
GenTexts ==
    { Abcd, Princ, <<99, 58, 97, 40>>, <<97, SP, 98, 41>>, <<97, 98, 34, 99>>,
      <<97, 98, 92, 99>> }

\* One or two recovered strings, numbered in the order found
GenStrings ==
    { <<[k |-> 0, v |-> x]>> : x \in GenTexts }
    \cup { <<[k |-> 0, v |-> x], [k |-> 1, v |-> y]>> : x \in GenTexts, y \in GenTexts }

GenInit ==
    /\ recovered \in GenStrings
    /\ parser = NewParser
    /\ decoded_data = <<>>
    /\ renderings = <<>>
    /\ pc = "start"
    /\ ran = ""
    /\ data = <<>>
    /\ shape = NoShape
    /\ container = NoContainer
    /\ stages = <<>>
    /\ output = None
    /\ format = ""
    /\ report = NoReport
    /\ exitCode = -1
    /\ bytecode = <<>>
    /\ record = NoRecord
    /\ tables = NoTables
    /\ operations = <<>>
    /\ str = <<>>
    /\ verdicts = <<>>
    /\ walk = NoWalk
    /\ key_order = <<>>
    /\ candidates = <<>>
    /\ consumed = <<>>
    /\ chosen = [set |-> FALSE, buffer |-> <<>>]
    /\ tried = <<>>
    /\ runs = <<>>

\* The generator named name ran: emitted holds what it returned (nothing
\* for None), with the body of the emitted function or expression
Generated(name, st, emitted) ==
    /\ pc = "start"
    /\ pc' = "done"
    /\ ran' = name
    /\ parser' = st
    /\ renderings' = emitted
    /\ UNCHANGED <<data, shape, container, stages, output, format, report,
                   exitCode, bytecode, record, tables, str, verdicts, operations,
                   decoded_data, recovered,
                   runs,
                   tried,
                   chosen,
                   consumed,
                   candidates,
                   key_order,
                   walk>>

\* What _decompile_function returns for func
Emitted(name, func) ==
    <<[by |-> name, of |-> func, text |-> function_text(func),
       body |-> decompile_body(func.body)]>>

\* Fas4Parser._decompile_function on a hand-built function value
Fas4ParserGenerateFunction ==
    \E func \in RenderFunctions :
        Generated("Fas4Parser._decompile_function", parser,
                  Emitted("Fas4Parser._decompile_function", func))

\* The function _build_function_from_strings appended, as _decompile_to_lisp
\* then writes it
BuiltFunction(st) ==
    Generated("Fas4Parser._build_function_from_strings", st,
              Emitted("Fas4Parser._build_function_from_strings",
                      st.functions[Len(st.functions)]))

\* Fas4Parser._build_function_from_strings on the recovered strings
Fas4ParserBuildFunctionFromStrings ==
    BuiltFunction(build_function_from_strings(recovered, parser))

\* The expression _make_expression returned, if any
MadeExpression(group, e) ==
    Generated("Fas4Parser._make_expression", parser,
              IF e.ok
              THEN <<[by |-> "Fas4Parser._make_expression", of |-> group,
                      text |-> expression_text(e.line), body |-> expression_text(e.line)]>>
              ELSE <<>>)

\* Fas4Parser._make_expression on the recovered strings as one group
Fas4ParserMakeExpression ==
    MadeExpression([j \in 1..Len(recovered) |-> recovered[j].v],
                   make_expression([j \in 1..Len(recovered) |-> recovered[j].v]))

GenNext ==
    \/ Fas4ParserGenerateFunction
    \/ Fas4ParserBuildFunctionFromStrings
    \/ Fas4ParserMakeExpression

GenSpec == GenInit /\ [][GenNext]_vars

----------------------------------------------------------------------------
(* Runs: parse_file called again and again on one input file, on a new     *)
(* parser object or on the one the call before used.                       *)

\* LegacySymbol with one function named by string 0, without arguments,
\* whose body is nil
LegacyFunction ==
    LegacySymbol \o <<0, 0, 0, 0>> \o <<0, 0, 0, 0>> \o <<1, 0, 0, 0>> \o <<0>>

\* How many parse_file calls the file receives at most
MaxRuns == 2

\* The names the input file is stored under
Filenames == {Filename, "copy.fas"}

\* Payloads of every decoding path: the fallback, the legacy format plain
\* and under either keyed cipher, the strings of the FAS4 scan, zlib
RunPayloads ==
    { Abcd, LegacySymbol, LegacyFunction, Fas4Strings,
      Fas4Parser_custom_decompress(LegacyFunction),
      FasParser_custom_decompress(LegacyFunction),
      <<120, 156, 115, 115, 12, 102, 0, 0, 2, 133, 0, 219>> }

\* The well-formed envelope around payload, with the space after the
\* marker that FasParser.parse_file looks for
RunShape(payload) ==
    [lead |-> <<>>, marked |-> TRUE, annotation |-> <<SP>>, eol1 |-> <<LF>>,
     eol2 |-> <<LF>>, size |-> "exact", stray |-> FALSE, payload |-> payload]

RunsInit ==
    /\ shape \in { RunShape(payload) : payload \in RunPayloads }
    /\ data = Build(shape)
    /\ parser = NewParser
    /\ runs = <<>>
    /\ pc = "start"
    /\ ran = ""
    /\ container = NoContainer
    /\ stages = <<>>
    /\ output = None
    /\ format = ""
    /\ report = NoReport
    /\ exitCode = -1
    /\ bytecode = <<>>
    /\ record = NoRecord
    /\ tables = NoTables
    /\ operations = <<>>
    /\ str = <<>>
    /\ verdicts = <<>>
    /\ walk = NoWalk
    /\ key_order = <<>>
    /\ candidates = <<>>
    /\ consumed = <<>>
    /\ chosen = [set |-> FALSE, buffer |-> <<>>]
    /\ tried = <<>>
    /\ renderings = <<>>
    /\ decoded_data = <<>>
    /\ recovered = <<>>

\* The parser object a call is made on: a new one, or the one the call
\* before was made on when that was an object of the same class
Object(name, fresh) ==
    IF fresh \/ runs = <<>> \/ runs[Len(runs)].by # name THEN NewParser ELSE parser

\* One more parse_file call returned r, on the file stored under filename
Returned(name, filename, fresh, r) ==
    /\ pc \in {"start", "done"}
    /\ Len(runs) < MaxRuns
    /\ pc' = "done"
    /\ ran' = name
    /\ parser' = r.parser
    /\ runs' = Append(runs, [by |-> name, file |-> filename,
                             fresh |-> (fresh \/ runs = <<>> \/ runs[Len(runs)].by # name),
                             output |-> r.output, tables |-> r.parser])
    /\ UNCHANGED <<data, shape, container, stages, output, format, report,
                   exitCode, bytecode, record, tables, str, verdicts, operations,
                   decoded_data, renderings, recovered,
                   tried,
                   chosen,
                   consumed,
                   candidates,
                   key_order,
                   walk>>

\* Fas4Parser.parse_file
Fas4ParserParseFileAgain ==
    \E filename \in Filenames, fresh \in BOOLEAN :
        Returned("Fas4Parser.parse_file", filename, fresh,
                 Fas4Parser_parse_file_on(Object("Fas4Parser.parse_file", fresh),
                                          data, filename))

\* FasParser.parse_file, as did_open calls it on a new parser object and
\* did_change on the object did_open stored
FasParserParseFileAgain ==
    \E filename \in Filenames, fresh \in BOOLEAN :
        Returned("FasParser.parse_file", filename, fresh,
                 FasParser_parse_file_on(Object("FasParser.parse_file", fresh), data))

RunsNext ==
    \/ Fas4ParserParseFileAgain
    \/ FasParserParseFileAgain

RunsSpec == RunsInit /\ [][RunsNext]_vars

----------------------------------------------------------------------------
(* Hover: the symbol the language server shows for a line.                 *)

\* FasParser.get_symbol_at_position: the first symbol, in the order of the
\* symbol table, whose position is on the line; <<>> stands for None
get_symbol_at_position(st, line) ==
    LET on == {k \in DOMAIN st.symbols : st.symbols[k].line = line}
    IN  IF on = {} THEN <<>> ELSE <<st.symbols[Min(on)]>>

\* The tables of FasParser() after one parse_file of the file
FreshTables == FasParser_parse_file(data).parser

----------------------------------------------------------------------------
(* Reconstruction: the function a generator builds for a buffer, beside    *)
(* the string table it recovered from that buffer.                         *)

RECURSIVE extract_strings_aggressive_loop(_, _, _)
\* Method 1 of _extract_strings_aggressive: [index:u32][length:u32][text]
\* records of 4 to 200 bytes, 80% of them printable
extract_strings_aggressive_loop(d, i, strings) ==
    IF ~(i < Len(d) - 8) THEN strings
    ELSE
      LET idx       == U32(d, i)
          length    == U32(d, i + 4)
          potential == PySlice(d, i + 8, i + 8 + length)
          s         == RStripNul(DecodeAsciiIgnore(potential))
      IN  IF /\ 4 <= length /\ length <= 200 /\ i + 8 + length <= Len(d)
             /\ PrintableCount(potential) * 10 >= length * 8
             /\ Len(s) >= 3 /\ AnyAlnum(s)
          THEN extract_strings_aggressive_loop(d, i + 8 + length, Put(strings, idx, s))
          ELSE extract_strings_aggressive_loop(d, i + 1, strings)

\* Method 2 of _extract_strings_aggressive accepts a run of four or more
\* printable bytes with a letter
IsAggressiveRun(r) == Len(r.text) >= 4 /\ AnyAlnum(r.text) /\ AnyAlpha(r.text)

\* Fas4Parser._extract_strings_aggressive: a run is added under its start
\* offset unless that key is taken
extract_strings_aggressive(bc) ==
    DictUpdate(RunsDict(SelectSeq(Runs(bc), IsAggressiveRun)),
               extract_strings_aggressive_loop(bc, 0, EmptyDict))

\* Fas4RealDecompiler._build_working_lisp_code: the function of its defun
\* line, '(defun c:PDI (/dict_name /items_purged /dict_obj /continue)'
build_working_lisp_code(bc) ==
    << [name |-> CannedName, args |-> CannedArgs, body |-> <<>>, source_position |-> 0] >>

\* The generator named name built the functions fs for the buffer, from
\* which it had recovered the string table strings
Reconstructed(name, strings, fs) ==
    /\ pc = "start"
    /\ pc' = "done"
    /\ ran' = name
    /\ tables' = [NoTables EXCEPT !.merged = strings]
    /\ parser' = [parser EXCEPT !.functions = fs]
    /\ UNCHANGED <<data, shape, container, stages, output, format, report,
                   exitCode, bytecode, record, str, verdicts, operations,
                   decoded_data, renderings, recovered, runs,
                   tried,
                   chosen,
                   consumed,
                   candidates,
                   key_order,
                   walk>>

\* Fas4Parser._reverse_engineer_bytecode: the strings of
\* _extract_strings_aggressive, then _reconstruct_functions
Fas4ParserReconstructFunctions ==
    Reconstructed("Fas4Parser._reconstruct_functions",
                  extract_strings_aggressive(bytecode), reconstruct_functions(bytecode))

\* Fas4RealDecompiler.decompile: the strings of
\* _extract_all_strings_comprehensive, then _build_working_lisp_code
RealDecompilerBuildWorkingLispCode ==
    Reconstructed("Fas4RealDecompiler._build_working_lisp_code",
                  extract_all_strings_comprehensive(bytecode),
                  build_working_lisp_code(bytecode))

ReconstructNext ==
    \/ Fas4ParserReconstructFunctions
    \/ RealDecompilerBuildWorkingLispCode

ReconstructSpec == StringsInit /\ [][ReconstructNext]_vars

----------------------------------------------------------------------------
(* Decoding: parse_file from the framed payload on, one step per codec     *)
(* attempt and per inner-format parse.                                     *)

\* data = None, and data = b
NoData == [set |-> FALSE, buffer |-> <<>>]
Data(b) == [set |-> TRUE, buffer |-> b]

\* A codec attempt and its outcome; a buffer handed to a parser or generator
Attempt(codec, ok) == [codec |-> codec, ok |-> ok]
Handed(to, b) == [to |-> to, buffer |-> b]

\* True and False as FasParser.parse_file returns them
Flag(ok) == [kind |-> IF ok THEN "True" ELSE "False", lines |-> <<>>]

DecodeInit ==
    /\ shape \in { RunShape(payload) : payload \in Payloads }
    /\ data = Build(shape)
    /\ ran \in {"Fas4Parser.parse_file", "FasParser.parse_file"}
    /\ container = IF ran = "Fas4Parser.parse_file"
                   THEN Fas4Parser_frame(data) ELSE FasParser_frame(data)
    /\ pc = IF ran = "Fas4Parser.parse_file" THEN "magic" ELSE "zlib"
    /\ tried = <<>>
    /\ chosen = NoData
    /\ consumed = <<>>
    /\ parser = NewParser
    /\ output = None
    /\ stages = <<>>
    /\ format = ""
    /\ report = NoReport
    /\ exitCode = -1
    /\ bytecode = <<>>
    /\ record = NoRecord
    /\ tables = NoTables
    /\ operations = <<>>
    /\ str = <<>>
    /\ verdicts = <<>>
    /\ walk = NoWalk
    /\ key_order = <<>>
    /\ candidates = <<>>
    /\ renderings = <<>>
    /\ decoded_data = <<>>
    /\ recovered = <<>>
    /\ runs = <<>>

\* One step of parse_file: where it goes on, and what it leaves
Step(to, codecs, buffer, handed, st, out) ==
    /\ container.status = "ok"
    /\ pc' = to
    /\ tried' = codecs
    /\ chosen' = buffer
    /\ consumed' = handed
    /\ parser' = st
    /\ output' = out
    /\ UNCHANGED <<data, shape, ran, container, stages, format, report,
                   exitCode, bytecode, record, tables, str, verdicts, operations,
                   decoded_data, renderings, recovered, runs,
                   candidates,
                   key_order,
                   walk>>

\* if compressed_data.startswith(b'FAS\x00'): data = compressed_data
Fas4ParserCheckMagic ==
    /\ pc = "magic"
    /\ IF StartsWith(container.payload, LegacyMagic)
       THEN Step("parse", tried, Data(container.payload), consumed, parser, output)
       ELSE Step("raw", tried, chosen, consumed, parser, output)

\* The raw try went as raw: success returns the decompiled tables
Fas4ParserRawTried(raw) ==
    Step(IF raw.ok THEN "done" ELSE "zlib", tried, chosen,
         Append(consumed, Handed("_parse_fas4_content", container.payload)), raw.st,
         IF raw.ok THEN Lisp(decompile_to_lisp(raw.st)) ELSE output)

\* if self._parse_fas4_content(compressed_data): return self._decompile_to_lisp()
Fas4ParserRawTry ==
    /\ pc = "raw"
    /\ Fas4ParserRawTried(parse_fas4_content(container.payload, parser))

\* zlib.decompress returned or raised as z tells
ZlibTried(z) ==
    Step(IF z.ok THEN "parse" ELSE "xor", Append(tried, Attempt("zlib", z.ok)),
         IF z.ok THEN Data(z.data) ELSE chosen, consumed, parser, output)

\* data = zlib.decompress(compressed_data), in either parse_file
ZlibAttempt ==
    /\ pc = "zlib"
    /\ ZlibTried(zlib_decompress(container.payload))

\* data = self._custom_decompress(compressed_data), in either parse_file
XorAttempt ==
    /\ pc = "xor"
    /\ Step("parse", Append(tried, Attempt("custom_xor", TRUE)),
            Data(IF ran = "Fas4Parser.parse_file"
                 THEN Fas4Parser_custom_decompress(container.payload)
                 ELSE FasParser_custom_decompress(container.payload)),
            consumed, parser, output)

\* The legacy parser ran on data: failure returns None
Fas4ParserParsedLegacy(p) ==
    Step("done", tried, chosen,
         Append(consumed, Handed("_parse_fas_content", chosen.buffer)), p.st,
         IF p.ok THEN Lisp(decompile_to_lisp(p.st)) ELSE None)

\* The FAS4 parser ran on data: failure hands compressed_data to
\* _create_fallback_output
Fas4ParserParsedFas4(q) ==
    Step("done", tried, chosen,
         Append(consumed, Handed("_parse_fas4_content", chosen.buffer))
         \o (IF q.ok THEN <<>>
             ELSE <<Handed("_create_fallback_output", container.payload)>>),
         q.st,
         IF q.ok THEN Lisp(decompile_to_lisp(q.st))
         ELSE Lisp(create_fallback_output(Filename, container.payload)))

\* Fas4Parser.parse_file from 'Parse the decompressed data' on
Fas4ParserParseData ==
    /\ pc = "parse"
    /\ ran = "Fas4Parser.parse_file"
    /\ IF StartsWith(chosen.buffer, LegacyMagic)
       THEN Fas4ParserParsedLegacy(Fas4Parser_parse_fas_content(chosen.buffer, parser))
       ELSE Fas4ParserParsedFas4(parse_fas4_content(chosen.buffer, parser))

\* The legacy parser of FasParser ran on data
FasParserParsed(p) ==
    Step("done", tried, chosen,
         Append(consumed, Handed("_parse_fas_content", chosen.buffer)), p.st, Flag(p.ok))

\* return self._parse_fas_content(data)
FasParserParseData ==
    /\ pc = "parse"
    /\ ran = "FasParser.parse_file"
    /\ FasParserParsed(FasParser_parse_fas_content(chosen.buffer, parser))

DecodeNext ==
    \/ Fas4ParserCheckMagic
    \/ Fas4ParserRawTry
    \/ ZlibAttempt
    \/ XorAttempt
    \/ Fas4ParserParseData
    \/ FasParserParseData

DecodeSpec == DecodeInit /\ [][DecodeNext]_vars

----------------------------------------------------------------------------
(* The keyed cipher of either parser, run once on a byte sequence.         *)

\* How long an enumerated cipher input is at most
MaxCipherLen == 3

\* NUL, the starting key, 0xAA and 0xFF
CipherBytes == {0, 85, 170, 255}

\* Thirty-two NUL bytes: the output is the key stream itself
KeyStreamInput == [i \in 1..32 |-> 0]

CipherInputs == SeqsUpTo(CipherBytes, MaxCipherLen) \cup {KeyStreamInput}

CipherInit ==
    /\ data \in CipherInputs
    /\ pc = "start"
    /\ ran = ""
    /\ tried = <<>>
    /\ chosen = NoData
    /\ consumed = <<>>
    /\ shape = NoShape
    /\ container = NoContainer
    /\ stages = <<>>
    /\ output = None
    /\ parser = NewParser
    /\ format = ""
    /\ report = NoReport
    /\ exitCode = -1
    /\ bytecode = <<>>
    /\ record = NoRecord
    /\ tables = NoTables
    /\ operations = <<>>
    /\ str = <<>>
    /\ verdicts = <<>>
    /\ walk = NoWalk
    /\ key_order = <<>>
    /\ candidates = <<>>
    /\ renderings = <<>>
    /\ decoded_data = <<>>
    /\ recovered = <<>>
    /\ runs = <<>>

\* The cipher named name returned the bytes b
Deciphered(name, b) ==
    /\ pc = "start"
    /\ pc' = "done"
    /\ ran' = name
    /\ tried' = <<Attempt("custom_xor", TRUE)>>
    /\ chosen' = Data(b)
    /\ UNCHANGED <<data, shape, container, stages, output, parser, format, report,
                   exitCode, bytecode, record, tables, str, verdicts, operations,
                   decoded_data, renderings, recovered, runs, consumed,
                   candidates,
                   key_order,
                   walk>>

Fas4ParserCustomDecompress ==
    Deciphered("Fas4Parser._custom_decompress", Fas4Parser_custom_decompress(data))

FasParserCustomDecompress ==
    Deciphered("FasParser._custom_decompress", FasParser_custom_decompress(data))

CipherNext ==
    \/ Fas4ParserCustomDecompress
    \/ FasParserCustomDecompress

CipherSpec == CipherInit /\ [][CipherNext]_vars

----------------------------------------------------------------------------
(* Merging: an extractor run on a buffer, with what each of its strategies *)
(* proposed beside the table it returned.                                  *)

\* The strategies of the extractors
PointerTable == "pointer table"
LengthPrefixed == "length-prefixed scan"
EmbeddedAscii == "embedded-ASCII scan"
KeyedTransform == "keyed-transform scan"

\* What one strategy proposed: a text for each key of t
Candidate(strategy, t) == [strategy |-> strategy, table |-> t]

\* _extract_all_strings once the header is skipped: the strategies in the
\* order of its strings.update calls, the keyed scan one key at a time
Interpreter_candidates(bc) ==
    << Candidate(PointerTable, Interpreter_string_table(bc)),
       Candidate(EmbeddedAscii, scan_readable_strings(bc)) >>
    \o [j \in 1..Len(ScanKeys) |->
           Candidate(KeyedTransform, scan_readable_strings(XorAll(bc, ScanKeys[j])))]

\* _extract_string_table_dynamic: the strategies in the order of its
\* strings.update calls, the keyed scan one key at a time
Analyzer_candidates(bc) ==
    << Candidate(PointerTable, Analyzer_string_table(bc)),
       Candidate(LengthPrefixed, extract_length_prefixed_strings(bc)),
       Candidate(EmbeddedAscii, extract_embedded_strings(bc)) >>
    \o [j \in 1..256 |->
           Candidate(KeyedTransform,
                     encoded_candidates(extract_embedded_strings(XorAll(bc, j - 1))))]

\* _extract_all_meaningful_strings once the header is skipped: the
\* strategies in the order of its strings.update calls, each with the
\* strings the final filter lets through
Fas4Parser_candidates(bc) ==
    << Candidate(EmbeddedAscii, valid_extracted(extract_readable_ascii(bc))) >>
    \o [j \in 1..Len(MeaningfulKeys) |->
           Candidate(KeyedTransform,
                     valid_extracted(extract_readable_ascii(XorAll(bc, MeaningfulKeys[j]))))]
    \o << Candidate(PointerTable, valid_extracted(pointer_table_strings(bc))) >>

\* The extractor named name ran on the buffer: cs holds what its
\* strategies proposed and t the table it returned
Merged(name, cs, t) ==
    /\ pc = "start"
    /\ pc' = "done"
    /\ ran' = name
    /\ candidates' = cs
    /\ tables' = [NoTables EXCEPT !.merged = t]
    /\ UNCHANGED <<data, shape, container, stages, output, parser, format, report,
                   exitCode, bytecode, record, str, verdicts, operations,
                   decoded_data, renderings, recovered, runs, tried, chosen, consumed,
                   key_order,
                   walk>>

InterpreterMergeStrings ==
    Merged("Fas4BytecodeInterpreter._extract_all_strings",
           Interpreter_candidates(SkipHeader(bytecode)),
           Interpreter_extract_all_strings(bytecode))

AnalyzerMergeStrings ==
    Merged("Fas4BytecodeAnalyzer._extract_string_table_dynamic",
           Analyzer_candidates(bytecode), extract_string_table_dynamic(bytecode))

Fas4ParserMergeStrings ==
    Merged("Fas4Parser._extract_all_meaningful_strings",
           Fas4Parser_candidates(SkipHeader(bytecode)),
           extract_all_meaningful_strings(bytecode))

MergeNext ==
    \/ InterpreterMergeStrings
    \/ AnalyzerMergeStrings
    \/ Fas4ParserMergeStrings

MergeSpec == StringsInit /\ [][MergeNext]_vars

----------------------------------------------------------------------------
(* The keyed scans with the results of their keys collected in another     *)
(* order than the one the source loops in.                                 *)

MaxShift == 2

\* The keys of order, starting r places further on and wrapping round
Rotated(order, r) ==
    [i \in 1..Len(order) |-> order[((i - 1 + r) % Len(order)) + 1]]

\* The keys of order, last first
Reversed(order) == [i \in 1..Len(order) |-> order[Len(order) + 1 - i]]

\* The keys of order, smallest first
Ascending(order) ==
    LET S == {order[i] : i \in DOMAIN order}
    IN  [i \in 1..Cardinality(S) |->
            CHOOSE x \in S : Cardinality({y \in S : y < x}) = i - 1]

\* The orders the results of the keys are collected in
KeyOrders(order) ==
    {Rotated(order, r) : r \in 0..MaxShift} \cup {Reversed(order), Ascending(order)}

KeyRecords == {r \in PointerRecords : r.index = 0 /\ r.pre \in {<<>>, ReadableLead}}

KeyInit ==
    /\ record \in KeyRecords
    /\ bytecode = Buffer(record)
    /\ pc = "start"
    /\ ran = ""
    /\ tables = NoTables
    /\ str = <<>>
    /\ verdicts = <<>>
    /\ walk = NoWalk
    /\ key_order = <<>>
    /\ candidates = <<>>
    /\ consumed = <<>>
    /\ chosen = [set |-> FALSE, buffer |-> <<>>]
    /\ tried = <<>>
    /\ runs = <<>>
    /\ recovered = <<>>
    /\ renderings = <<>>
    /\ decoded_data = <<>>
    /\ operations = <<>>
    /\ NoFile

\* The keyed scan named name collected the results of its keys in the
\* given order and returned the table t
Searched(name, order, t) ==
    /\ pc = "start"
    /\ pc' = "done"
    /\ ran' = name
    /\ key_order' = order
    /\ tables' = [NoTables EXCEPT !.merged = t]
    /\ UNCHANGED <<data, shape, container, stages, output, parser, format, report,
                   exitCode, bytecode, record, str, verdicts, operations,
                   decoded_data, renderings, recovered, runs, tried, chosen,
                   consumed, candidates,
                   walk>>

InterpreterTryDecodeStrings ==
    \E order \in KeyOrders(ScanKeys) :
        Searched("Fas4BytecodeInterpreter._try_decode_strings", order,
                 try_decode_strings_in(bytecode, order))

Fas4ParserTryDecodeAllStrings ==
    \E order \in KeyOrders(AllKeys) :
        Searched("Fas4Parser._try_decode_all_strings", order,
                 try_decode_all_strings_in(bytecode, order))

KeyNext == InterpreterTryDecodeStrings \/ Fas4ParserTryDecodeAllStrings

KeySpec == KeyInit /\ [][KeyNext]_vars

----------------------------------------------------------------------------
(* Fas4Parser._extract_string_table_from_bytecode.                         *)

RECURSIVE string_table_from_offset(_, _, _, _)
\* Method 1: the loop over [length:u32][bytes] records from the offset the
\* first four bytes name, each kept under its byte offset
string_table_from_offset(bc, offset, attempts, string_table) ==
    IF ~(offset < Len(bc) - 8 /\ attempts < 50) THEN string_table
    ELSE LET length == U32(bc, offset)
             potential == PySlice(bc, offset + 4, offset + 4 + length)
             s == RStripNul(DecodeAsciiIgnore(potential))
         IN  IF /\ 4 <= length /\ length <= 200
                /\ offset + 4 + length <= Len(bc)
                /\ 10 * PrintableCount(potential) >= 7 * length
                /\ Len(s) >= 3 /\ AnyAlnum(s)
             THEN string_table_from_offset(bc, offset + 4 + length, attempts + 1,
                      DictUpdate(string_table, offset :> s))
             ELSE string_table_from_offset(bc, offset + 1, attempts + 1, string_table)

\* 'acad', 'dict', 'princ', 'setq', 'getstring', 'namedobjdict', 'wcmatch',
\* 'dictremove', 'strcat', 'itoa', 'if', 'progn', 'not', 'exit', 'or', '=',
\* 'group', 'layout', 'material', 'items_purged', 'dict_name', 'dict_obj',
\* 'continue'
TableKeywords == <<
    <<97, 99, 97, 100>>,
    <<100, 105, 99, 116>>,
    <<112, 114, 105, 110, 99>>,
    <<115, 101, 116, 113>>,
    <<103, 101, 116, 115, 116, 114, 105, 110, 103>>,
    <<110, 97, 109, 101, 100, 111, 98, 106, 100, 105, 99, 116>>,
    <<119, 99, 109, 97, 116, 99, 104>>,
    <<100, 105, 99, 116, 114, 101, 109, 111, 118, 101>>,
    <<115, 116, 114, 99, 97, 116>>,
    <<105, 116, 111, 97>>,
    <<105, 102>>,
    <<112, 114, 111, 103, 110>>,
    <<110, 111, 116>>,
    <<101, 120, 105, 116>>,
    <<111, 114>>,
    <<61>>,
    <<103, 114, 111, 117, 112>>,
    <<108, 97, 121, 111, 117, 116>>,
    <<109, 97, 116, 101, 114, 105, 97, 108>>,
    <<105, 116, 101, 109, 115, 95, 112, 117, 114, 103, 101, 100>>,
    <<100, 105, 99, 116, 95, 110, 97, 109, 101>>,
    <<100, 105, 99, 116, 95, 111, 98, 106>>,
    <<99, 111, 110, 116, 105, 110, 117, 101>> >>

\* The runs Methods 2 and 3 keep: closed by a byte outside 0x20..0x7E, four
\* characters or more, a letter among them, a keyword somewhere inside
IsTableRun(r) ==
    /\ ~r.last
    /\ Len(r.text) >= 4
    /\ AnyAlnum(r.text) /\ AnyAlpha(r.text)
    /\ ContainsAny(Lower(r.text), TableKeywords)

\* What one pass over the buffer d adds to string_table: an offset already
\* in the table is left alone
table_runs(d, string_table) == DictUpdate(RunsDict(SelectSeq(Runs(d), IsTableRun)), string_table)

\* The XOR keys of Method 2, in order
TableKeys == <<0, 255, 85, 170, 56, 36, 19, 127>>

RECURSIVE string_table_xor_scan(_, _, _)
\* Method 2: the loop over TableKeys[j], TableKeys[j+1], ...
string_table_xor_scan(bc, j, string_table) ==
    IF j > Len(TableKeys) THEN string_table
    ELSE string_table_xor_scan(bc, j + 1,
             table_runs(XorAll(bc, TableKeys[j]), string_table))

\* The table after Method 1
string_table_method1(bc) ==
    IF HasTableOffset(bc) THEN string_table_from_offset(bc, U32(bc, 0), 0, EmptyDict)
    ELSE EmptyDict

\* The table after Method 2
string_table_method2(bc) == string_table_xor_scan(bc, 1, string_table_method1(bc))

\* Fas4Parser._extract_string_table_from_bytecode
extract_string_table_from_bytecode(bc) == table_runs(bc, string_table_method2(bc))

\* The entries of the dict b under keys the dict a does not have
Added(a, b) == [k \in DOMAIN b \ DOMAIN a |-> b[k]]

----------------------------------------------------------------------------
(* The keyed-transform scans, each run once on a buffer that holds a text  *)
(* between NUL bytes, the whole of it XORed with one key.                   *)

\* 'setq', 'setqx', '(setq a)', 'abcd', 'princ'
KeywordTexts ==
    {<<115, 101, 116, 113>>, <<115, 101, 116, 113, 120>>,
     <<40, 115, 101, 116, 113, 32, 97, 41>>, <<97, 98, 99, 100>>,
     <<112, 114, 105, 110, 99>>}
KeywordKeys == {0, 19, 85}
KeywordLeads == {<<>>, <<0>>}
KeywordTails == {<<>>, <<0>>, <<0, 0>>}

KeywordBuffers ==
    {XorAll(pre \o text \o post, key) :
        pre \in KeywordLeads, text \in KeywordTexts, post \in KeywordTails,
        key \in KeywordKeys}

KeywordInit ==
    /\ bytecode \in KeywordBuffers
    /\ record = NoRecord
    /\ pc = "start"
    /\ ran = ""
    /\ tables = NoTables
    /\ str = <<>>
    /\ verdicts = <<>>
    /\ walk = NoWalk
    /\ key_order = <<>>
    /\ candidates = <<>>
    /\ consumed = <<>>
    /\ chosen = [set |-> FALSE, buffer |-> <<>>]
    /\ tried = <<>>
    /\ runs = <<>>
    /\ recovered = <<>>
    /\ renderings = <<>>
    /\ decoded_data = <<>>
    /\ operations = <<>>
    /\ NoFile

\* The extractor named name ran on the buffer: added holds the strings its
\* keyed-transform scan put in the table and t the table it returned
Scanned(name, added, t) ==
    /\ pc = "start"
    /\ pc' = "done"
    /\ ran' = name
    /\ candidates' = <<Candidate(KeyedTransform, added)>>
    /\ tables' = [NoTables EXCEPT !.merged = t]
    /\ UNCHANGED <<data, shape, container, stages, output, parser, format, report,
                   exitCode, bytecode, record, str, verdicts, operations,
                   decoded_data, renderings, recovered, runs, tried, chosen,
                   consumed, key_order,
                   walk>>

Fas4ParserKeyedScan ==
    Scanned("Fas4Parser._try_decode_all_strings",
            try_decode_all_strings(bytecode), try_decode_all_strings(bytecode))

AnalyzerExtractEncodedStrings ==
    Scanned("Fas4BytecodeAnalyzer._extract_encoded_strings",
            extract_encoded_strings(bytecode), extract_encoded_strings(bytecode))

Fas4ParserExtractStringTableFromBytecode ==
    Scanned("Fas4Parser._extract_string_table_from_bytecode",
            Added(string_table_method1(bytecode), string_table_method2(bytecode)),
            extract_string_table_from_bytecode(bytecode))

KeywordNext ==
    \/ Fas4ParserKeyedScan
    \/ AnalyzerExtractEncodedStrings
    \/ Fas4ParserExtractStringTableFromBytecode

KeywordSpec == KeywordInit /\ [][KeywordNext]_vars

----------------------------------------------------------------------------
(* The embedded-ASCII scans, each run once on a buffer that holds two runs *)
(* of printable bytes with a NUL between them.                             *)

\* Fas4Parser._extract_strings_from_bytecode: the list of the runs of four
\* bytes or more with a letter or digit, each stripped of its blanks
IsListedRun(r) == Len(r.text) >= 4 /\ AnyAlnum(r.text)
extract_strings_from_bytecode(d) ==
    LET rs == SelectSeq(Runs(d), IsListedRun)
    IN  [j \in 1..Len(rs) |-> Strip(rs[j].text)]

\* '', 'ab', 'abc', 'abcd', '1234', 'UUU1', '~~~a', ' a  ', '    ', each between quotes
EmbeddedRuns ==
    {<<>>,
     <<97, 98>>,
     <<97, 98, 99>>,
     <<97, 98, 99, 100>>,
     <<49, 50, 51, 52>>,
     <<85, 85, 85, 49>>,
     <<126, 126, 126, 97>>,
     <<32, 97, 32, 32>>,
     <<32, 32, 32, 32>>}
EmbeddedLeads == {<<>>, <<0>>}
EmbeddedTails == {<<>>, <<200>>}

EmbeddedBuffers ==
    {pre \o r1 \o <<0>> \o r2 \o post :
        pre \in EmbeddedLeads, r1 \in EmbeddedRuns, r2 \in EmbeddedRuns,
        post \in EmbeddedTails}

EmbeddedInit ==
    /\ bytecode \in EmbeddedBuffers
    /\ record = NoRecord
    /\ pc = "start"
    /\ ran = ""
    /\ tables = NoTables
    /\ str = <<>>
    /\ verdicts = <<>>
    /\ walk = NoWalk
    /\ key_order = <<>>
    /\ candidates = <<>>
    /\ consumed = <<>>
    /\ chosen = [set |-> FALSE, buffer |-> <<>>]
    /\ tried = <<>>
    /\ runs = <<>>
    /\ recovered = <<>>
    /\ renderings = <<>>
    /\ decoded_data = <<>>
    /\ operations = <<>>
    /\ NoFile

\* The scan named name ran on the buffer and returned the dict t or the
\* list strings
Scan(name, t, strings) ==
    /\ pc = "start"
    /\ pc' = "done"
    /\ ran' = name
    /\ tables' = [NoTables EXCEPT !.merged = t]
    /\ recovered' = strings
    /\ UNCHANGED <<data, shape, container, stages, output, parser, format, report,
                   exitCode, bytecode, record, str, verdicts, operations,
                   decoded_data, renderings, runs, tried, chosen, consumed,
                   candidates, key_order,
                   walk>>

Fas4ParserExtractReadableAscii ==
    Scan("Fas4Parser._extract_readable_ascii", extract_readable_ascii(bytecode), <<>>)

InterpreterScanReadableStrings ==
    Scan("Fas4BytecodeInterpreter._scan_readable_strings",
         scan_readable_strings(bytecode), <<>>)

Fas4ParserExtractStringsFromBytecode ==
    Scan("Fas4Parser._extract_strings_from_bytecode", EmptyDict,
         extract_strings_from_bytecode(bytecode))

EmbeddedNext ==
    \/ Fas4ParserExtractReadableAscii
    \/ InterpreterScanReadableStrings
    \/ Fas4ParserExtractStringsFromBytecode

EmbeddedSpec == EmbeddedInit /\ [][EmbeddedNext]_vars

----------------------------------------------------------------------------
(* The pointer-table loops, one turn at a time, on a buffer that holds two *)
(* records with bytes that belong to no record before and between them.    *)

\* [index:u32][length:u32][text] and [length:u32][text]
IndexedRecord(index, text) == U32LE(index) \o U32LE(Len(text)) \o text
PlainRecord(text) == U32LE(Len(text)) \o text

TableRecords == {IndexedRecord(7, Hello), PlainRecord(Hello)}
Junk == {<<>>, <<0>>, <<255>>}
TablePads == {<<>>, <<0, 0, 0, 0, 0, 0, 0, 0>>}

TableBuffers ==
    {U32LE(4) \o j1 \o r1 \o j2 \o r2 \o pad :
        j1 \in Junk, r1 \in TableRecords, j2 \in Junk, r2 \in TableRecords,
        pad \in TablePads}

\* The budget of turns of each loop: max_iter, attempts < 100, max_iterations
TableLoops ==
    [p \in {"Fas4BytecodeInterpreter._extract_string_table",
            "Fas4Parser._extract_strings_from_offset",
            "Fas4BytecodeAnalyzer._extract_strings_from_offset"} |->
        IF p = "Fas4BytecodeInterpreter._extract_string_table" THEN 200 ELSE 100]

TableInit ==
    /\ bytecode \in TableBuffers
    /\ ran \in DOMAIN TableLoops
    /\ \E offset \in {0, 4, Len(bytecode)} :
           walk = [NoWalk EXCEPT !.pos = offset, !.left = TableLoops[ran]]
    /\ record = NoRecord
    /\ pc = "loop"
    /\ tables = NoTables
    /\ str = <<>>
    /\ verdicts = <<>>
    /\ key_order = <<>>
    /\ candidates = <<>>
    /\ consumed = <<>>
    /\ chosen = [set |-> FALSE, buffer |-> <<>>]
    /\ tried = <<>>
    /\ runs = <<>>
    /\ recovered = <<>>
    /\ renderings = <<>>
    /\ decoded_data = <<>>
    /\ operations = <<>>
    /\ NoFile

\* The loop named name is at the top of a turn
InLoop(name) ==
    /\ pc = "loop"
    /\ ran = name
    /\ walk.pos < Len(bytecode) - 8
    /\ walk.left > 0

\* One turn of a loop: it accepted the string s under key and moved on by
\* size bytes, or accepted nothing and moved on by one byte; reach is the
\* end of the furthest slice it took from the buffer
Turn(accepts, key, s, size, reach) ==
    /\ walk' = [pos      |-> walk.pos + (IF accepts THEN size ELSE 1),
                prev     |-> walk.pos,
                turns    |-> walk.turns + 1,
                left     |-> walk.left - 1,
                accepted |-> walk.accepted + (IF accepts THEN 1 ELSE 0),
                late     |-> walk.late + (IF accepts /\ walk.skipped THEN 1 ELSE 0),
                high     |-> Max({walk.high, reach}),
                skipped  |-> walk.skipped \/ ~accepts]
    /\ tables' = IF accepts
                 THEN [tables EXCEPT !.pointer = Put(tables.pointer, key, s)]
                 ELSE tables
    /\ UNCHANGED <<data, shape, pc, ran, container, stages, output, parser, format,
                   report, exitCode, bytecode, record, str, verdicts, operations,
                   decoded_data, renderings, recovered, runs, tried, chosen,
                   consumed, candidates, key_order>>

\* The end of the slice a turn takes for a record whose length field sits
\* at offset at: the field alone, or the field and the bytes it announces
SliceEnd(at, lo, hi) ==
    IF lo <= U32(bytecode, at) /\ U32(bytecode, at) <= hi
       /\ at + 4 + U32(bytecode, at) <= Len(bytecode)
    THEN at + 4 + U32(bytecode, at)
    ELSE at + 4

InterpreterTableTurn ==
    /\ InLoop("Fas4BytecodeInterpreter._extract_string_table")
    /\ LET pos     == walk.pos
           indexed == indexed_record(bytecode, pos)
           plain   == plain_record(bytecode, pos)
       IN  IF indexed.ok
           THEN Turn(TRUE, U32(bytecode, pos), indexed.s,
                     8 + U32(bytecode, pos + 4), SliceEnd(pos + 4, 1, 500))
           ELSE Turn(plain.ok, pos, plain.s, 4 + U32(bytecode, pos),
                     Max({SliceEnd(pos + 4, 1, 500), SliceEnd(pos, 1, 500)}))

Fas4ParserTableTurn ==
    /\ InLoop("Fas4Parser._extract_strings_from_offset")
    /\ LET pos       == walk.pos
           length    == U32(bytecode, pos)
           potential == PySlice(bytecode, pos + 4, pos + 4 + length)
           s         == RStripNul(DecodeAsciiIgnore(potential))
       IN  Turn(/\ 4 <= length /\ length <= 200 /\ pos + 4 + length <= Len(bytecode)
                /\ 10 * PrintableCount(potential) >= 7 * length
                /\ Len(s) >= 3 /\ AnyAlnum(s),
                pos, s, 4 + length, SliceEnd(pos, 4, 200))

AnalyzerTableTurn ==
    /\ InLoop("Fas4BytecodeAnalyzer._extract_strings_from_offset")
    /\ LET pos     == walk.pos
           indexed == Analyzer_indexed_record(bytecode, pos)
           plain   == Analyzer_plain_record(bytecode, pos)
       IN  IF indexed.ok
           THEN Turn(TRUE, U32(bytecode, pos), indexed.s,
                     8 + U32(bytecode, pos + 4), SliceEnd(pos + 4, 4, 200))
           ELSE Turn(plain.ok, pos, plain.s, 4 + U32(bytecode, pos),
                     Max({SliceEnd(pos + 4, 4, 200), SliceEnd(pos, 4, 200)}))

\* The loop condition fails: the loop returns its table
TableReturn ==
    /\ pc = "loop"
    /\ ~(walk.pos < Len(bytecode) - 8 /\ walk.left > 0)
    /\ pc' = "done"
    /\ UNCHANGED <<data, shape, ran, container, stages, output, parser, format,
                   report, exitCode, bytecode, record, tables, str, verdicts,
                   operations, decoded_data, renderings, recovered, runs, tried,
                   chosen, consumed, candidates, key_order, walk>>

TableNext ==
    \/ InterpreterTableTurn
    \/ Fas4ParserTableTurn
    \/ AnalyzerTableTurn
    \/ TableReturn

TableSpec == TableInit /\ [][TableNext]_vars

----------------------------------------------------------------------------
(* The instruction walks, one turn at a time, on a stream of opcode bytes  *)
(* with or without the '38 $' prefix.                                      *)

MaxStreamLen == 6

\* NUL, 0x03 (an operation of size 5 that reads nothing) and 0x14 (one
\* that reads a 32-bit operand)
StreamBytes == {0, 3, 20}
Streams == SeqsUpTo(StreamBytes, MaxStreamLen)

WalkInit ==
    /\ \E stream \in Streams : bytecode \in {stream, Fas4Prefix \o stream}
    /\ ran \in {"Fas4BytecodeInterpreter._parse_instructions",
                "Fas4Parser._extract_operations_from_bytecode"}
    /\ pc = "start"
    /\ walk = NoWalk
    /\ record = NoRecord
    /\ tables = NoTables
    /\ str = <<>>
    /\ verdicts = <<>>
    /\ key_order = <<>>
    /\ candidates = <<>>
    /\ consumed = <<>>
    /\ chosen = [set |-> FALSE, buffer |-> <<>>]
    /\ tried = <<>>
    /\ runs = <<>>
    /\ recovered = <<>>
    /\ renderings = <<>>
    /\ decoded_data = <<>>
    /\ operations = <<>>
    /\ NoFile

\* The stream the loops walk: the buffer with its header skipped
WalkBuffer == SkipHeader(bytecode)

\* What a walk does before its loop: _extract_operations_from_bytecode
\* reads the string references, and i = 0
WalkStart ==
    /\ pc = "start"
    /\ pc' = "loop"
    /\ tables' = IF ran = "Fas4Parser._extract_operations_from_bytecode"
                 THEN [NoTables EXCEPT !.merged = extract_string_references(WalkBuffer)]
                 ELSE NoTables
    /\ UNCHANGED <<data, shape, ran, container, stages, output, parser, format,
                   report, exitCode, bytecode, record, str, verdicts, operations,
                   decoded_data, renderings, recovered, runs, tried, chosen,
                   consumed, candidates, key_order, walk>>

\* One turn of a walk: it emitted what it made of the bytes at the cursor
\* (emitted: a sequence of one or none), moved the cursor to next and read
\* the stream up to reach
Walked(emitted, next, reach) ==
    /\ operations' = operations \o emitted
    /\ walk' = [walk EXCEPT !.pos = next, !.prev = walk.pos, !.turns = walk.turns + 1,
                            !.high = Max({walk.high, reach})]
    /\ UNCHANGED <<data, shape, pc, ran, container, stages, output, parser, format,
                   report, exitCode, bytecode, record, tables, str, verdicts,
                   decoded_data, renderings, recovered, runs, tried, chosen,
                   consumed, candidates, key_order>>

\* The end of the furthest slice _parse_instructions takes at offset i
operands_end(bc, i) ==
    IF i + 5 <= Len(bc) THEN i + 5
    ELSE IF i + 3 <= Len(bc) THEN i + 3
    ELSE IF i + 2 <= Len(bc) THEN i + 2
    ELSE i + 1

\* i += 1 of _parse_instructions
parse_instructions_next(i) == i + 1

InterpreterParseInstruction ==
    /\ pc = "loop"
    /\ ran = "Fas4BytecodeInterpreter._parse_instructions"
    /\ walk.pos < Len(WalkBuffer)
    /\ Walked(<<Interpreter_instruction(WalkBuffer, walk.pos)>>,
              parse_instructions_next(walk.pos), operands_end(WalkBuffer, walk.pos))

\* The cursor after the turn at offset i that made operation: the
\* operation's size further on, or one byte further on when it made none
extract_operations_stay(i, operation) == i
extract_operations_next(i, operation) ==
    IF operation.type = "" THEN i + 1 ELSE i + operation.size

\* The end of the furthest slice _analyze_opcode takes at offset
analyze_opcode_end(bc, offset) ==
    IF bc[offset + 1] = 20 /\ offset + 5 < Len(bc) THEN offset + 5 ELSE offset + 1

Fas4ParserExtractOperation ==
    /\ pc = "loop"
    /\ ran = "Fas4Parser._extract_operations_from_bytecode"
    /\ walk.pos < Len(WalkBuffer) - 1
    /\ LET operation == analyze_opcode(WalkBuffer, walk.pos, tables.merged)
       IN  Walked(IF operation.type = "" THEN <<>>
                  ELSE <<Operation(operation.type, operation.name, operation.args,
                                   operation.offset)>>,
                  extract_operations_next(walk.pos, operation),
                  analyze_opcode_end(WalkBuffer, walk.pos))

\* The loop condition fails: the walk returns what it emitted
WalkReturn ==
    /\ pc = "loop"
    /\ IF ran = "Fas4BytecodeInterpreter._parse_instructions"
       THEN ~(walk.pos < Len(WalkBuffer))
       ELSE ~(walk.pos < Len(WalkBuffer) - 1)
    /\ pc' = "done"
    /\ UNCHANGED <<data, shape, ran, container, stages, output, parser, format,
                   report, exitCode, bytecode, record, tables, str, verdicts,
                   operations, decoded_data, renderings, recovered, runs, tried,
                   chosen, consumed, candidates, key_order, walk>>

WalkNext ==
    \/ WalkStart
    \/ InterpreterParseInstruction
    \/ Fas4ParserExtractOperation
    \/ WalkReturn

WalkSpec == WalkInit /\ [][WalkNext]_vars

----------------------------------------------------------------------------
(* The legacy inner format written by create_test_fas.py and read back by *)
(* _parse_fas_content of both parsers.  A string is the sequence of its   *)
(* characters' code points.                                               *)

RECURSIVE Concat(_)
\* b''.join(parts)
Concat(parts) == IF parts = <<>> THEN <<>> ELSE Head(parts) \o Concat(Tail(parts))

\* string.encode('utf-8') for characters below U+0800
EncodeUtf8(s) ==
    Concat([i \in 1..Len(s) |->
               IF s[i] < 128 THEN <<s[i]>>
               ELSE <<192 + (s[i] \div 64), 128 + (s[i] % 64)>>])

\* struct.pack('i', v): the two's complement of v, low byte first
S32LE(v) ==
    <<v % 256, (v \div 256) % 256, (v \div 65536) % 256, (v \div 16777216) % 256>>

\* write_string of create_test_fas.py: the index, the number of characters
\* of the string, the UTF-8 bytes of the string
write_string(idx, string) == U32LE(idx) \o U32LE(Len(string)) \o EncodeUtf8(string)

\* A symbol record as main writes it: the name index, the type, and the
\* value of an integer (type 1) or of a string index (type 3)
write_symbol(y) ==
    U32LE(y.name_idx) \o <<y.type>>
    \o (CASE y.type = 1 -> S32LE(y.value)
          [] y.type = 3 -> U32LE(y.value)
          [] OTHER -> <<>>)

\* A function record as main writes it: the name index, the counted
\* argument indices, the counted body items (type, value index)
write_function(f) ==
    U32LE(f.name_idx) \o U32LE(Len(f.args))
    \o Concat([j \in 1..Len(f.args) |-> U32LE(f.args[j])])
    \o U32LE(Len(f.body))
    \o Concat([j \in 1..Len(f.body) |-> <<f.body[j].type>> \o U32LE(f.body[j].value)])

\* main of create_test_fas.py on the tables r: magic, version 1, the
\* counted strings numbered from 0, the counted symbols, the functions
create_test_fas(r) ==
    LegacyMagic \o U32LE(1)
    \o U32LE(Len(r.strings))
    \o Concat([j \in 1..Len(r.strings) |-> write_string(j - 1, r.strings[j])])
    \o U32LE(Len(r.symbols))
    \o Concat([j \in 1..Len(r.symbols) |-> write_symbol(r.symbols[j])])
    \o Concat([j \in 1..Len(r.functions) |-> write_function(r.functions[j])])

\* How many strings, symbols and functions the written tables hold at most
MaxStrings == 2
MaxSymbols == 2
MaxFunctions == 2

\* 'ab', and 'é' whose UTF-8 form has two bytes
LegacyTexts == {<<97, 98>>, <<233>>}

\* Symbols whose value is nil, an integer, a string index
LegacySymbols ==
    {[name_idx |-> 0, type |-> 0, value |-> 0],
     [name_idx |-> 1, type |-> 1, value |-> -5],
     [name_idx |-> 0, type |-> 3, value |-> 1]}

\* A function without arguments and body, and one with an argument and a
\* body of a string and an integer
LegacyFunctions ==
    {[name_idx |-> 0, args |-> <<>>, body |-> <<>>],
     [name_idx |-> 1, args |-> <<0>>,
      body |-> <<[type |-> 3, value |-> 1], [type |-> 1, value |-> 7]>>]}

LegacyInputs ==
    [kind : {"legacy"},
     strings : SeqsUpTo(LegacyTexts, MaxStrings),
     symbols : SeqsUpTo(LegacySymbols, MaxSymbols),
     functions : SeqsUpTo(LegacyFunctions, MaxFunctions)]

\* The written file, whole or cut short; the input file of the
\* command-line tool holds it under FasParser's cipher
Cuts(d) == {SubSeq(d, 1, n) : n \in 0..Len(d)}

LegacyInit ==
    /\ record \in LegacyInputs
    /\ bytecode \in Cuts(create_test_fas(record))
    /\ shape = RunShape(FasParser_custom_decompress(bytecode))
    /\ data = Build(shape)
    /\ pc = "start"
    /\ ran = ""
    /\ walk = NoWalk
    /\ tables = NoTables
    /\ str = <<>>
    /\ verdicts = <<>>
    /\ key_order = <<>>
    /\ candidates = <<>>
    /\ consumed = <<>>
    /\ chosen = [set |-> FALSE, buffer |-> <<>>]
    /\ tried = <<>>
    /\ runs = <<>>
    /\ recovered = <<>>
    /\ renderings = <<>>
    /\ decoded_data = <<>>
    /\ operations = <<>>
    /\ container = NoContainer
    /\ stages = <<>>
    /\ output = None
    /\ parser = NewParser
    /\ format = ""
    /\ report = NoReport
    /\ exitCode = -1

\* _parse_fas_content of the parser named name ran on the buffer: r holds
\* the flag it returned and the parser's tables after the call
Parsed(name, r) ==
    /\ pc = "start"
    /\ pc' = "done"
    /\ ran' = name
    /\ verdicts' = <<r.ok>>
    /\ parser' = r.st
    /\ UNCHANGED <<data, shape, container, stages, output, format, report,
                   exitCode, bytecode, record, tables, str, operations,
                   decoded_data, renderings, recovered, runs, tried, chosen,
                   consumed, candidates, key_order, walk>>

FasParserParseFasContent ==
    Parsed("FasParser._parse_fas_content", FasParser_parse_fas_content(bytecode, parser))

Fas4ParserParseFasContent ==
    Parsed("Fas4Parser._parse_fas_content", Fas4Parser_parse_fas_content(bytecode, parser))

\* main of decompile.py once parser.parse_file has returned r: the output
\* file is written if the parser holds a function or a symbol, whatever
\* parse_file returned
decompile_main(r) ==
    IF r.parser.functions # <<>> \/ DOMAIN r.parser.symbols # {}
    THEN Lisp(FasParser_output(r.parser))
    ELSE None

\* decompile.py ran on the file r was parsed from
Decompiled(r) ==
    /\ pc = "start"
    /\ pc' = "done"
    /\ ran' = "decompile.main"
    /\ verdicts' = <<r.output>>
    /\ parser' = r.parser
    /\ container' = r.container
    /\ stages' = r.stages
    /\ output' = decompile_main(r)
    /\ UNCHANGED <<data, shape, format, report, exitCode, bytecode, record,
                   tables, str, operations, decoded_data, renderings,
                   recovered, runs, tried, chosen, consumed, candidates,
                   key_order, walk>>

\* decompile.py on the file that holds the buffer under FasParser's cipher
DecompileMain == Decompiled(FasParser_parse_file(data))

LegacyNext ==
    \/ FasParserParseFasContent
    \/ Fas4ParserParseFasContent
    \/ DecompileMain

LegacySpec == LegacyInit /\ [][LegacyNext]_vars

----------------------------------------------------------------------------
(* The function-record loop of _parse_fas_content, one turn at a time.    *)

\* _parse_fas_content up to its function loop: the header, the string
\* table and the symbol table; pos is where the function records start
parse_fas_content_tables(variant, d, st) ==
    IF ~StartsWith(d, LegacyMagic) \/ 12 > Len(d)
    THEN [ok |-> FALSE, pos |-> 0, st |-> st]
    ELSE LET s == read_strings(variant, d, 12, U32(d, 8), st)
         IN  IF ~s.ok \/ s.pos + 4 > Len(d)
             THEN [ok |-> FALSE, pos |-> s.pos, st |-> s.st]
             ELSE read_symbols(variant, d, s.pos + 4, 0, U32(d, s.pos), s.st)

\* How many function records the written file holds at most
MaxRecords == 2

\* Function records: no arguments and no body; one argument and a body of
\* a string and an integer; two arguments and a body of nil
FunctionRecords ==
    {[name_idx |-> 0, args |-> <<>>, body |-> <<>>],
     [name_idx |-> 1, args |-> <<0>>,
      body |-> <<[type |-> 3, value |-> 1], [type |-> 1, value |-> 7]>>],
     [name_idx |-> 0, args |-> <<0, 1>>, body |-> <<[type |-> 0, value |-> 0]>>]}

FunctionInputs ==
    [kind : {"legacy"},
     strings : {<<<<97, 98>>, <<99, 100>>>>},
     symbols : {<<>>, <<[name_idx |-> 1, type |-> 1, value |-> 42]>>},
     functions : SeqsUpTo(FunctionRecords, MaxRecords)]

FunctionInit ==
    /\ record \in FunctionInputs
    /\ bytecode \in Cuts(create_test_fas(record))
    /\ ran \in {"FasParser._parse_fas_content", "Fas4Parser._parse_fas_content"}
    /\ pc = "start"
    /\ walk = NoWalk
    /\ tables = NoTables
    /\ str = <<>>
    /\ verdicts = <<>>
    /\ key_order = <<>>
    /\ candidates = <<>>
    /\ consumed = <<>>
    /\ chosen = [set |-> FALSE, buffer |-> <<>>]
    /\ tried = <<>>
    /\ runs = <<>>
    /\ recovered = <<>>
    /\ renderings = <<>>
    /\ decoded_data = <<>>
    /\ operations = <<>>
    /\ NoFile

\* The parser whose _parse_fas_content runs
Variant == IF ran = "Fas4Parser._parse_fas_content" THEN "fas4" ELSE "fas"

\* The call went from one point of _parse_fas_content to the next
Stepped(next, flag, st, w) ==
    /\ pc' = next
    /\ verdicts' = flag
    /\ parser' = st
    /\ walk' = w
    /\ UNCHANGED <<data, shape, ran, container, stages, output, format, report,
                   exitCode, bytecode, record, tables, str, operations,
                   decoded_data, renderings, recovered, runs, tried, chosen,
                   consumed, candidates, key_order>>

\* The header and the two tables are read: the call returns False, or the
\* function loop starts where the symbol table ended
ReadTablesTo(t) ==
    /\ pc = "start"
    /\ IF t.ok
       THEN Stepped("loop", <<>>, t.st, [NoWalk EXCEPT !.pos = t.pos, !.prev = t.pos])
       ELSE Stepped("done", <<FALSE>>, t.st, NoWalk)

ReadTables == ReadTablesTo(parse_fas_content_tables(Variant, bytecode, parser))

\* One turn of while pos < len(view): the function f is appended and the
\* position moves behind its record, or the loop is left
FunctionTurnOn(f) ==
    /\ pc = "loop"
    /\ walk.pos < Len(bytecode)
    /\ IF f.ok
       THEN Stepped("loop", <<>>,
                    [parser EXCEPT !.functions = Append(@, f.func)],
                    [walk EXCEPT !.prev = walk.pos, !.pos = f.pos,
                                 !.turns = @ + 1, !.accepted = @ + 1,
                                 !.skipped = FALSE])
       ELSE Stepped("done", <<TRUE>>, parser,
                    [walk EXCEPT !.prev = walk.pos, !.turns = @ + 1,
                                 !.high = f.pos, !.skipped = TRUE])

FunctionTurn == FunctionTurnOn(parse_function_from_view(bytecode, walk.pos, parser))

\* The loop ends at the end of the buffer: return True
FunctionReturn ==
    /\ pc = "loop"
    /\ ~(walk.pos < Len(bytecode))
    /\ Stepped("done", <<TRUE>>, parser, walk)

FunctionNext ==
    \/ ReadTables
    \/ FunctionTurn
    \/ FunctionReturn

FunctionSpec == FunctionInit /\ [][FunctionNext]_vars

----------------------------------------------------------------------------
(* The keyed cipher run twice: _custom_decompress on its own output, the  *)
(* loop one byte at a time.                                               *)

\* A key that is never advanced
stuck_key(key) == key

\* key = (key * 13 + 7) & 0xFF in Fas4Parser._custom_decompress
Fas4Parser_next_key(key) == (key * 13 + 7) % 256

\* key = (key * 13 + 7) & 0xFF in FasParser._custom_decompress
FasParser_next_key(key) == (key * 13 + 7) % 256

\* Five hundred and twenty bytes that take every value
LongInput == [i \in 1..520 |-> (i * 7) % 256]

TwiceInputs == SeqsUpTo(CipherBytes, MaxCipherLen) \cup {LongInput}

TwiceInit ==
    /\ data \in TwiceInputs
    /\ ran \in {"Fas4Parser._custom_decompress", "FasParser._custom_decompress"}
    /\ pc = "start"
    /\ bytecode = <<>>
    /\ decoded_data = <<>>
    /\ key_order = <<>>
    /\ walk = NoWalk
    /\ tried = <<>>
    /\ chosen = [set |-> FALSE, buffer |-> <<>>]
    /\ consumed = <<>>
    /\ shape = NoShape
    /\ container = NoContainer
    /\ stages = <<>>
    /\ output = None
    /\ parser = NewParser
    /\ format = ""
    /\ report = NoReport
    /\ exitCode = -1
    /\ record = NoRecord
    /\ tables = NoTables
    /\ operations = <<>>
    /\ str = <<>>
    /\ verdicts = <<>>
    /\ candidates = <<>>
    /\ renderings = <<>>
    /\ recovered = <<>>
    /\ runs = <<>>

\* The call moved on: the bytes it reads, the result it has built, the
\* keys it has computed, its position
Ciphering(next, input, result, used, w) ==
    /\ pc' = next
    /\ bytecode' = input
    /\ decoded_data' = result
    /\ key_order' = used
    /\ walk' = w
    /\ UNCHANGED <<data, shape, ran, container, stages, output, parser, format,
                   report, exitCode, record, tables, str, verdicts, operations,
                   renderings, recovered, runs, tried, chosen, consumed,
                   candidates>>

\* _custom_decompress is called, on the data and then on what the first
\* call returned: result = bytearray() and key = 0x55
CustomDecompressCalled ==
    /\ pc \in {"start", "returned"}
    /\ Ciphering("loop", IF pc = "start" THEN data ELSE decoded_data, <<>>, <<85>>,
                 [NoWalk EXCEPT !.turns = walk.turns + 1])

\* One turn of for byte in data: the byte XOR the key is appended and the
\* key advanced by next_key
CipherByte(next_key) ==
    /\ pc = "loop"
    /\ walk.pos < Len(bytecode)
    /\ Ciphering("loop", bytecode,
                 Append(decoded_data,
                        Xor(bytecode[walk.pos + 1], key_order[Len(key_order)])),
                 Append(key_order, next_key),
                 [walk EXCEPT !.prev = walk.pos, !.pos = walk.pos + 1])

Fas4ParserCipherByte ==
    /\ ran = "Fas4Parser._custom_decompress"
    /\ CipherByte(Fas4Parser_next_key(key_order[Len(key_order)]))

FasParserCipherByte ==
    /\ ran = "FasParser._custom_decompress"
    /\ CipherByte(FasParser_next_key(key_order[Len(key_order)]))

\* return bytes(result)
CustomDecompressReturned ==
    /\ pc = "loop"
    /\ walk.pos = Len(bytecode)
    /\ Ciphering(IF walk.turns = 1 THEN "returned" ELSE "done",
                 bytecode, decoded_data, key_order, walk)

TwiceNext ==
    \/ CustomDecompressCalled
    \/ Fas4ParserCipherByte
    \/ FasParserCipherByte
    \/ CustomDecompressReturned

TwiceSpec == TwiceInit /\ [][TwiceNext]_vars

----------------------------------------------------------------------------
(* Properties of the envelope readers and of the command-line entry point. *)

\* The container the entry point named name makes of the file d
ContainerOf(name, d) ==
    CASE name = "Fas4Parser.parse_file" -> Fas4Parser_frame(d)
      [] name = "Fas4ReverseEngineer.read_fas4_file" -> read_fas4_file(d)
      [] name = "FasParser.parse_file" -> FasParser_frame(d)

\* C1: framing round trip.  For every payload P with L = Len(P), reading
\* 'FAS4-FILE' annotation EOL decimal(L) EOL P with Fas4Parser.parse_file
\* or with Fas4ReverseEngineer.read_fas4_file yields the container whose
\* declared length is L and whose payload is exactly P.
C1_FramingRoundTrip ==
    (/\ pc = "done"
     /\ ran \in {"Fas4Parser.parse_file", "Fas4ReverseEngineer.read_fas4_file"}
     /\ Canonical(shape))
    => container = Framed(Len(shape.payload), shape.payload)

\* The same envelope with both lines ended by LF and no blank line before
\* the payload
LfTwin(s) == [s EXCEPT !.eol1 = <<LF>>, !.eol2 = <<LF>>, !.stray = FALSE]

\* C2: line-ending tolerance.  For every payload, each envelope reader
\* returns the same container whether the header line and the size line
\* end in LF or in CRLF, and also when one stray blank line precedes the
\* payload.
C2_LineEndingTolerance ==
    (/\ pc = "done"
     /\ ran \in {"Fas4Parser.parse_file", "Fas4ReverseEngineer.read_fas4_file",
                 "FasParser.parse_file"}
     /\ shape.lead = <<>> /\ shape.marked /\ shape.size = "exact"
     /\ shape.eol1 = shape.eol2)
    => container = ContainerOf(ran, Build(LfTwin(shape)))

\* C3: marker tolerance.  Every input whose header line holds the marker
\* FAS4-FILE, with or without leading whitespace or annotation, followed
\* by a space or directly by the line end, is recognised as a FAS4
\* container, and detect_fas_format routes to the FAS4 parser every input
\* that Fas4Parser.parse_file is able to frame.
C3_MarkerTolerance ==
    /\ (/\ pc = "done"
        /\ ran \in {"Fas4Parser.parse_file", "FasParser.parse_file"}
        /\ shape.marked)
       => container.status \notin {"MissingHeader", "NotFas4"}
    /\ (/\ pc = "done"
        /\ ran = "main"
        /\ Fas4Parser_frame(data).status = "ok")
       => format = "FAS4"

\* An envelope whose framing must fail: no marker, no size line, a size
\* line that is not an ASCII decimal integer, or fewer bytes after the size
\* line than the declared length
FramingFault(s) ==
    \/ ~s.marked
    \/ s.size \in {"missing", "alpha", "tail255"}
    \/ s.size = "over" /\ ~s.stray

\* C4: framing errors are fatal.  If the marker is absent, or the size line
\* is missing or is not an ASCII decimal integer, or fewer than L bytes
\* follow the size line, the reader reports a format error, no decoding
\* stage runs and no output text is returned.
C4_FramingErrorsFatal ==
    (/\ pc = "done"
     /\ ran \in {"Fas4Parser.parse_file", "FasParser.parse_file"}
     /\ FramingFault(shape))
    => /\ container.status # "ok"
       /\ stages = <<>>
       /\ output.kind \in {"None", "False"}

\* C5: container invariant.  Whenever framing succeeds the payload has
\* exactly the declared length, for every integer the size line parses to,
\* zero and signed values included.
C5_ContainerInvariant ==
    (/\ pc = "done"
     /\ ran \in {"Fas4Parser.parse_file", "Fas4ReverseEngineer.read_fas4_file"}
     /\ container.status = "ok")
    => Len(container.payload) = container.size

\* C6: no fatal condition after framing.  For every input whose envelope
\* frames, whatever the payload, Fas4Parser.parse_file returns non-empty
\* output text and the command-line entry point exits with code 0.
C6_NoFatalAfterFraming ==
    /\ (/\ pc = "done"
        /\ ran = "Fas4Parser.parse_file"
        /\ container.status = "ok")
       => (output.kind = "bytes" /\ output.lines # <<>>)
    /\ (/\ pc = "done"
        /\ ran = "main"
        /\ format = "FAS4"
        /\ container.status = "ok")
       => exitCode = 0

\* 'FAS4-FILE ; comment' CRLF '4' CRLF 'abcd'
MinimalInput ==
    Build([lead |-> <<>>, marked |-> TRUE,
           annotation |-> <<32, 59, 32, 99, 111, 109, 109, 101, 110, 116>>,
           eol1 |-> <<CR, LF>>, eol2 |-> <<CR, LF>>, size |-> "exact",
           stray |-> FALSE, payload |-> Abcd])

\* The lines by which the generated text says that recovery was partial
PartialRecoveryMarkers ==
    { "  ;; Full decompilation requires FAS4 format specification",
      "  ;; Full decompilation requires understanding the encoding algorithm",
      ";; NOTE: Could not fully reconstruct function structure" }

HasPartialRecoveryMarker(out) ==
    \E j \in 1..Len(out.lines) : out.lines[j].fmt \in PartialRecoveryMarkers

\* C7: end to end on the minimal input.  For 'FAS4-FILE ; comment' CRLF '4'
\* CRLF 'abcd' framing succeeds, the generated output holds a
\* partial-recovery marker, the reported coverage ratio is 0 and the
\* process exit code is 0.
C7_MinimalInput ==
    (pc = "done" /\ ran = "main" /\ data = MinimalInput)
    => /\ container.status = "ok"
       /\ HasPartialRecoveryMarker(output)
       /\ exitCode = 0
       /\ "coverage_ratio" \in DOMAIN report
       /\ report["coverage_ratio"] = 0

----------------------------------------------------------------------------
(* Properties of the string extractors.                                    *)

\* The extractors that hold a pointer-table strategy and merge it with
\* their other strategies
PointerTableExtractors ==
    {"Fas4BytecodeInterpreter._extract_all_strings",
     "Fas4RealDecompiler._extract_all_strings_comprehensive",
     "Fas4Parser._extract_all_meaningful_strings",
     "Fas4Parser._extract_all_strings_from_bytecode"}

\* The extractors that hold a length-prefixed scan
LengthPrefixExtractors ==
    {"Fas4Parser._extract_all_strings_from_bytecode",
     "Fas4BytecodeAnalyzer._extract_string_table_dynamic"}

\* C8: for a buffer whose first four bytes name an offset O inside it and
\* that holds at O a record (index i, length n in 1..500, n printable bytes
\* t), the merged string table maps i to t, whatever the other strategies
\* find in the buffer.
C8_PointerTableRecovery ==
    (pc = "done" /\ ran \in PointerTableExtractors /\ record.kind = "pointer")
    => /\ record.index \in DOMAIN tables.merged
       /\ tables.merged[record.index] = record.text

\* C9: for a buffer that holds the record 0x05 'hello' at offset k among
\* filler bytes, the merged string table maps k, the offset of the length
\* byte, to exactly 'hello'.
C9_LengthPrefixedRecovery ==
    (pc = "done" /\ ran \in LengthPrefixExtractors /\ record.kind = "prefixed")
    => /\ Offset(record) \in DOMAIN tables.merged
       /\ tables.merged[Offset(record)] = Hello

----------------------------------------------------------------------------
(* Properties of the validity predicates.                                  *)

\* '}}}}', '{{{', '|||', '~~~': the repeated brace, pipe and tilde patterns
ArtefactPatterns == <<
    <<125, 125, 125, 125>>, <<123, 123, 123>>, <<124, 124, 124>>,
    <<126, 126, 126>> >>

\* The validity predicate as the specification states it
isValidString(s) ==
    /\ Len(s) >= 2
    /\ AnyAlnum(s)
    /\ ~AllIn(s, Brackets)
    /\ ~ContainsAny(s, ArtefactPatterns)

\* C10: each validity predicate of the code returns true exactly when the
\* string has at least two characters, holds an alphanumeric character, is
\* not made of whitespace and bracket characters only and holds no repeated
\* brace, pipe or tilde pattern; so each rejects '}}}}', '' and '   ' and
\* accepts 'dict_name', and the three predicates agree on every string.
C10_ValidityPredicate ==
    pc = "done" => verdicts = <<isValidString(str)>>

----------------------------------------------------------------------------
(* Properties of the instruction interpreters.                             *)

\* The operations built from the instructions at the offsets k .. k + 4
OperationsWithin(k) ==
    LET Within(op) == k <= op.offset /\ op.offset <= k + 4
    IN  SelectSeq(operations, Within)

\* The operation is FunctionCall(s, []) decoded at offset k
IsFunctionCall(op, s, k) ==
    /\ op.type \in {"call", "function_call"}
    /\ op.name = s
    /\ op.args = <<>>
    /\ op.offset = k

\* C11: for a stream that holds opcode 0x14 and a 4-byte little-endian
\* operand n, with a string table that maps n to s, interpretation yields
\* exactly one operation for those five bytes, FunctionCall(s, []); the
\* operand bytes are not decoded again.
C11_OpcodeDecoding ==
    (pc = "done" /\ record.kind = "call" /\ record.index \in DOMAIN tables.merged)
    => /\ Len(OperationsWithin(Offset(record))) = 1
       /\ IsFunctionCall(OperationsWithin(Offset(record))[1],
                         tables.merged[record.index], Offset(record))

----------------------------------------------------------------------------
(* Properties of the generators called repeatedly.                        *)

\* The renderings of the same value by the same method
SameRendering(a, b) == a.by = b.by /\ a.of = b.of

\* C12: rendering is idempotent: two calls of the same generator on the
\* same function value, or of _decompile_to_lisp on the same unchanged
\* parser, return the same text, and every call leaves the parser's
\* tables (its functions included) as the first call found them.
C12_RenderingIdempotent ==
    \A i \in DOMAIN renderings, j \in DOMAIN renderings :
        /\ renderings[i].tables = renderings[j].tables
        /\ renderings[i].tables = parser
        /\ SameRendering(renderings[i], renderings[j])
               => renderings[i].text = renderings[j].text

\* _decompile_to_lisp ran twice on a parser that holds a function and a
\* symbol, and decompile_function ran on that function
C12_RenderedTwice ==
    /\ Len(renderings) = 3
    /\ renderings[1].by = "Fas4Parser._decompile_to_lisp"
    /\ renderings[2].by = "Fas4Parser._decompile_to_lisp"
    /\ renderings[3].by = "FasParser.decompile_function"
    /\ Len(parser.functions) = 2
    /\ parser.functions[1].body # <<>>
    /\ DOMAIN parser.symbols # {}

----------------------------------------------------------------------------
(* Properties of the emitted source text.                                  *)

\* C13: generated source is never empty and never malformed: whatever a
\* generator emitted for a function value or for recovered strings has a
\* non-empty body, every string literal in it is terminated, and its
\* parentheses outside string literals and comments are balanced.
C13_WellFormedSource ==
    \A i \in DOMAIN renderings :
        renderings[i].by \in { "Fas4Parser._decompile_function",
                               "Fas4Parser._build_function_from_strings",
                               "Fas4Parser._make_expression" }
        => /\ renderings[i].body # <<>>
           /\ Terminated(renderings[i].text)
           /\ Balanced(renderings[i].text)

----------------------------------------------------------------------------
(* Properties of repeated runs over one input file.                        *)

\* C14: determinism: two runs of the same parser class over the same input
\* bytes return the same output text, whatever name the file is stored
\* under and whether or not the parser object was used before.
C14_Determinism ==
    \A i \in DOMAIN runs, j \in DOMAIN runs :
        runs[i].by = runs[j].by => runs[i].output = runs[j].output

\* C15: no state is carried across runs: after every parse_file call of a
\* FasParser object on the unchanged file, the first on a new object as
\* did_open makes it or a later one on the same object as did_change makes
\* it, the object's string table, symbols, symbol positions and functions
\* are those of a new parser after one parse, and hover resolves every line
\* to the same symbol.
C15_NoStateAcrossRuns ==
    \A i \in DOMAIN runs :
        runs[i].by = "FasParser.parse_file"
        => /\ runs[i].tables = FreshTables
           /\ Len(runs[i].tables.functions) = Len(FreshTables.functions)
           /\ \A line \in 0..MaxRuns :
                  get_symbol_at_position(runs[i].tables, line)
                  = get_symbol_at_position(FreshTables, line)

----------------------------------------------------------------------------
(* Properties of the reconstructed functions.                              *)

\* The texts a string table holds
Values(t) == { t[k] : k \in DOMAIN t }

\* C16: no canned answer: every argument name of every function a
\* generator built is a value of the string table it recovered from the
\* same buffer; when that table is empty the argument list is empty.
C16_NoCannedAnswer ==
    pc = "done"
    => \A j \in DOMAIN parser.functions :
           \A a \in DOMAIN parser.functions[j].args :
               parser.functions[j].args[a] \in Values(tables.merged)

----------------------------------------------------------------------------
(* Properties of the decoding steps.                                       *)

\* Some attempt of the codec named codec before attempt i failed
FailedBefore(codec, i) == \E j \in 1..(i - 1) : tried[j].codec = codec /\ ~tried[j].ok

\* C17: codec order: on a payload that begins with FAS\0 no codec is ever
\* tried and the chosen buffer is the payload; on any other payload the
\* keyed XOR cipher is tried only after zlib was tried and failed; and
\* decoding ends with a chosen buffer.
C17_CodecOrder ==
    /\ StartsWith(container.payload, LegacyMagic)
           => /\ tried = <<>>
              /\ chosen.set => chosen.buffer = container.payload
    /\ \A i \in DOMAIN tried :
           tried[i].codec = "custom_xor" => FailedBefore("zlib", i)
    /\ \A i \in DOMAIN tried, j \in DOMAIN tried : i < j => ~tried[i].ok
    /\ pc \in {"parse", "done"}
           => \/ chosen.set
              \/ consumed # <<>> /\ consumed[1].buffer = container.payload

\* The last codec attempt succeeded: zlib returned, or the XOR cipher ran
CodecSucceeded == tried # <<>> /\ tried[Len(tried)].ok

\* C18: the chosen buffer is the one consumed: once a codec succeeded, every
\* buffer handed on after it, to an inner-format parser or to the fallback
\* generator with its string extraction, instruction decoding and code
\* generation, is the decoded buffer.
C18_ChosenBufferConsumed ==
    (pc = "done" /\ CodecSucceeded)
    => \A i \in DOMAIN consumed :
           consumed[i].to \in {"_parse_fas_content", "_create_fallback_output"}
           => consumed[i].buffer = chosen.buffer

----------------------------------------------------------------------------
(* Properties of the keyed cipher.                                         *)

RECURSIVE KeyAt(_)
\* k_0 = 0x55 and k_{i+1} = (k_i * 13 + 7) mod 256
KeyAt(i) == IF i = 0 THEN 85 ELSE (KeyAt(i - 1) * 13 + 7) % 256

\* C19: keyed substitution cipher: the output of either implementation is
\* as long as the input, its byte i is the input byte i XOR k_i with
\* k_0 = 0x55 and k_{i+1} = (k_i * 13 + 7) mod 256, every k_i is in 0..255,
\* and the two implementations return the same bytes.
C19_KeyedCipher ==
    pc = "done"
    => /\ Len(chosen.buffer) = Len(data)
       /\ \A i \in 1..Len(data) :
              /\ KeyAt(i - 1) \in 0..255
              /\ chosen.buffer[i] = Xor(data[i], KeyAt(i - 1))
       /\ Fas4Parser_custom_decompress(data) = FasParser_custom_decompress(data)

\* A cipher ran on the thirty-two NUL bytes and returned the key stream,
\* which starts 55 58 7f
C19_KeyStream ==
    /\ pc = "done"
    /\ data = KeyStreamInput
    /\ SubSeq(chosen.buffer, 1, 3) = <<85, 88, 127>>
    /\ \E i \in 1..32 : chosen.buffer[i] > 127

----------------------------------------------------------------------------
(* Properties of the merged string table.                                  *)

\* The candidates that propose a text for the key k
Proposing(k) == {j \in DOMAIN candidates : k \in DOMAIN candidates[j].table}

\* The strategies from the highest priority to the lowest
Priority == <<PointerTable, LengthPrefixed, EmbeddedAscii, KeyedTransform>>

\* The place of the strategy s in that order
Rank(s) == CHOOSE i \in DOMAIN Priority : Priority[i] = s

\* Those of them that come from the highest-priority strategy
Preferred(k) ==
    {j \in Proposing(k) :
        \A i \in Proposing(k) :
            Rank(candidates[j].strategy) <= Rank(candidates[i].strategy)}

\* The keys for which any strategy proposed a text
ProposedKeys == UNION {DOMAIN candidates[j].table : j \in DOMAIN candidates}

\* C20: merge policy: for every key that two or more candidates propose a
\* text for, the final table holds a text of the highest-priority strategy
\* among them (pointer table, then length-prefixed scan, then
\* embedded-ASCII scan, then keyed-transform scan), and of the texts of that
\* strategy a longest one.
C20_MergePolicy ==
    pc = "done"
    => \A k \in ProposedKeys :
           Cardinality(Proposing(k)) >= 2
           => /\ k \in DOMAIN tables.merged
              /\ \E j \in Preferred(k) : tables.merged[k] = candidates[j].table[k]
              /\ \A j \in Preferred(k) :
                     Len(tables.merged[k]) >= Len(candidates[j].table[k])

----------------------------------------------------------------------------
(* Properties of the keyed scans.                                          *)

\* The table the scan that ran returns with its keys taken in the given order
KeySearch(order) ==
    IF ran = "Fas4BytecodeInterpreter._try_decode_strings"
    THEN try_decode_strings_in(bytecode, order)
    ELSE try_decode_all_strings_in(bytecode, order)

\* C21: order independence of the key search: the table merged from the
\* per-key results, collected in whatever order, is the table that
\* evaluating the keys one at a time in ascending order gives.
C21_OrderIndependence ==
    pc = "done" => tables.merged = KeySearch(Ascending(key_order))


\* The keywords the keyed-transform scans test against
KeywordDictionary ==
    {AnalyzerKeywords[j] : j \in DOMAIN AnalyzerKeywords}
        \cup {TableKeywords[j] : j \in DOMAIN TableKeywords}

\* C22: keyed-transform acceptance: every string the keyed-transform scan
\* adds to the string table is exactly equal to an entry of the keyword
\* dictionary.
C22_KeywordAcceptance ==
    pc = "done"
    => \A j \in DOMAIN candidates :
           candidates[j].strategy = KeyedTransform
           => \A k \in DOMAIN candidates[j].table :
                  candidates[j].table[k] \in KeywordDictionary

----------------------------------------------------------------------------
(* Properties of the embedded-ASCII scans.                                 *)

\* The bytes d[a..b] are a maximal run of bytes in 0x20..0x7E
IsMaximalRun(d, a, b) ==
    /\ a <= b
    /\ \A i \in a..b : IsPrintable(d[i])
    /\ a = 1 \/ ~IsPrintable(d[a - 1])
    /\ b = Len(d) \/ ~IsPrintable(d[b + 1])

\* The maximal runs the scan is to accept, each as <<first, last>>
AcceptedRuns(d) ==
    {r \in (1..Len(d)) \X (1..Len(d)) :
        /\ IsMaximalRun(d, r[1], r[2])
        /\ r[2] - r[1] + 1 >= 3
        /\ AnyAlnum(SubSeq(d, r[1], r[2]))
        /\ ~ContainsAny(SubSeq(d, r[1], r[2]), ArtefactPatterns)}

\* The accepted runs by start offset
EmbeddedScan(d) ==
    [k \in {r[1] - 1 : r \in AcceptedRuns(d)} |->
        LET r == CHOOSE r \in AcceptedRuns(d) : r[1] - 1 = k
        IN  SubSeq(d, r[1], r[2])]

\* The accepted runs in buffer order
EmbeddedList(d) ==
    LET ks == SortedSeq(DOMAIN EmbeddedScan(d))
    IN  [j \in 1..Len(ks) |-> EmbeddedScan(d)[ks[j]]]

\* C23: embedded-ASCII scan: the scan returns exactly one entry per maximal
\* run of bytes in 0x20..0x7E that has three bytes or more, a letter or
\* digit among them and no artefact pattern; the key is the start offset of
\* the run and the text the whole run, for the run that reaches the end of
\* the buffer as for any other.
C23_EmbeddedScan ==
    pc = "done"
    => IF ran = "Fas4Parser._extract_strings_from_bytecode"
       THEN recovered = EmbeddedList(bytecode)
       ELSE tables.merged = EmbeddedScan(bytecode)

----------------------------------------------------------------------------
(* Properties of the pointer-table loops.                                  *)

\* C24: pointer-table loop guard: from its start offset the parse accepts
\* consecutive conforming records only, so no record after the first
\* position that holds none; it accepts at most 200 records and takes no
\* byte at or beyond the end of the buffer.
C24_PointerTableLoop ==
    /\ walk.late = 0
    /\ walk.accepted <= 200
    /\ walk.high <= Len(bytecode)

----------------------------------------------------------------------------
(* Properties of the instruction walks.                                    *)

\* The opcodes a walk gives an operand width: _parse_instructions none,
\* _analyze_opcode 0x01, 0x03 and 0x14
Registered ==
    IF ran = "Fas4Parser._extract_operations_from_bytecode" THEN {1, 3, 20} ELSE {}

\* C25: instruction walk: at every turn the cursor strictly increases, by
\* exactly 1 for an opcode with no registered operand width; the number of
\* turns never exceeds the length of the buffer, so the walk terminates; no
\* byte at or beyond the end of the buffer is read, whatever opcode sits in
\* its last bytes; the emitted offsets are in non-decreasing order and all
\* below the length of the buffer.
C25_InstructionWalk ==
    /\ walk.turns > 0
       => /\ walk.pos > walk.prev
          /\ WalkBuffer[walk.prev + 1] \notin Registered => walk.pos = walk.prev + 1
    /\ walk.turns <= Len(WalkBuffer)
    /\ walk.turns <= walk.pos
    /\ walk.high <= Len(WalkBuffer)
    /\ \A j \in 1..Len(operations) :
           /\ operations[j].offset < Len(WalkBuffer)
           /\ j > 1 => operations[j - 1].offset <= operations[j].offset

\* An operation of size 5 was made of an opcode in the last bytes of the
\* buffer, the cursor went past the end, and the walk returned
C25_OpcodeInLastBytes ==
    /\ pc = "done"
    /\ ran = "Fas4Parser._extract_operations_from_bytecode"
    /\ walk.pos > Len(WalkBuffer)
    /\ Len(operations) >= 1

----------------------------------------------------------------------------
(* Properties of the interpretation of the decoded instructions.          *)

\* The instructions the interpreter that ran had decoded from the stream
Instructions ==
    IF ran = "Fas4BytecodeInterpreter._interpret_instructions"
    THEN parse_instructions(bytecode)
    ELSE parse_instruction_stream(SkipHeader(bytecode))

\* The interpreters whose loop appends the result of one call per instruction
InstructionInterpreters ==
    {"Fas4BytecodeInterpreter._interpret_instructions",
     "Fas4ReverseEngineer.interpret_instructions"}

\* The operation kept for an instruction whose opcode the interpreter does
\* not know
IsUnknown(op, inst) == op.type = "unknown" /\ op.offset = inst.offset

\* The share of the instructions that gave an operation of a known kind
coverageRatio ==
    [known |-> Len(SelectSeq(operations, LAMBDA op : op.type # "unknown")),
     total |-> Len(Instructions)]

\* C26: unknown opcodes are kept, not dropped: interpretation emits exactly
\* one operation per decoded instruction, in instruction order, an
\* instruction whose opcode is not a call yields an Unknown operation, so
\* the operations are as many as the instructions and the share of the
\* known ones lies between 0 and 1.
C26_UnknownOpcodesKept ==
    (pc = "done" /\ ran \in InstructionInterpreters)
    => /\ Len(operations) = Len(Instructions)
       /\ \A j \in 1..Len(Instructions) :
              /\ operations[j].offset = Instructions[j].offset
              /\ ~IsCall(Instructions[j]) => IsUnknown(operations[j], Instructions[j])
       /\ coverageRatio.known <= coverageRatio.total

----------------------------------------------------------------------------
(* Properties of the legacy inner format.                                 *)

\* The string table the written tables r stand for
WrittenStrings(r) == [i \in 0..(Len(r.strings) - 1) |-> r.strings[i + 1]]

\* The value a written symbol or body item stands for
WrittenValue(r, type, value) ==
    CASE type = 1 -> [t |-> "int", v |-> value]
      [] type = 3 -> [t |-> "str", v |-> Get(WrittenStrings(r), value, <<>>)]
      [] OTHER -> Nil

\* The parsed symbol y is the i-th written symbol, resolved
SymbolRead(r, i, y) ==
    /\ y.name = Get(WrittenStrings(r), r.symbols[i + 1].name_idx,
                    SymPrefix \o Decimal(i))
    /\ y.value = WrittenValue(r, r.symbols[i + 1].type, r.symbols[i + 1].value)

\* The parsed function f is the written function w, resolved
FunctionRead(r, w, f) ==
    /\ f.name = Get(WrittenStrings(r), w.name_idx, UnknownFunction)
    /\ f.args = [j \in 1..Len(w.args) |->
                    Get(WrittenStrings(r), w.args[j], ArgPrefix \o Decimal(j - 1))]
    /\ f.body = [j \in 1..Len(w.body) |->
                    WrittenValue(r, w.body[j].type, w.body[j].value)]

\* C27: legacy inner-format round trip: the layout create_test_fas writes
\* for a string table, a symbol list and a function list is parsed by
\* _parse_fas_content of either parser with result True, the string table
\* that was written, one symbol per record in order with its value
\* resolved, and one function per record with its name, arguments and
\* body resolved through the string table.
C27_LegacyRoundTrip ==
    (pc = "done" /\ bytecode = create_test_fas(record))
    => /\ verdicts = <<TRUE>>
       /\ parser.string_table = WrittenStrings(record)
       /\ DOMAIN parser.symbols = 0..(Len(record.symbols) - 1)
       /\ \A i \in DOMAIN parser.symbols : SymbolRead(record, i, parser.symbols[i])
       /\ Len(parser.functions) = Len(record.functions)
       /\ \A j \in 1..Len(parser.functions) :
              FunctionRead(record, record.functions[j], parser.functions[j])

\* The strings of the written tables are ASCII
AsciiStrings ==
    \A j \in 1..Len(record.strings) : \A i \in 1..Len(record.strings[j]) :
        record.strings[j][i] < 128

\* The round trip of the tables whose strings are ASCII
AsciiRoundTrip == AsciiStrings => C27_LegacyRoundTrip

\* The record of the string idx lies inside the buffer d and holds text
ReadInside(d, idx, text) ==
    \E p \in 0..(Len(d) - 8) :
        /\ U32(d, p) = idx
        /\ p + 8 + U32(d, p + 4) <= Len(d)
        /\ DecodeUtf8Replace(PySlice(d, p + 8, p + 8 + U32(d, p + 4))) = text

\* The parse reported failure
ParseFailed == pc = "done" /\ verdicts = <<FALSE>>

\* C29: a failed parse leaves no partial result: when _parse_fas_content
\* (and so parse_file) reports failure, the parser's string_table, symbols
\* and functions are what they were before the call, every string-table
\* entry that is present was read from bytes inside the buffer, and the
\* command-line tool writes no output file.
C29_NoPartialResult ==
    ParseFailed
    => /\ parser.string_table = NewParser.string_table
       /\ parser.symbols = NewParser.symbols
       /\ parser.functions = NewParser.functions
       /\ \A idx \in DOMAIN parser.string_table :
              ReadInside(bytecode, idx, parser.string_table[idx])
       /\ output = None

\* The tables a failed parse leaves behind
TablesKept ==
    ParseFailed
    => /\ parser.string_table = NewParser.string_table
       /\ parser.symbols = NewParser.symbols
       /\ parser.functions = NewParser.functions

\* The strings a failed parse leaves behind lie inside the buffer
StringsInside ==
    ParseFailed
    => \A idx \in DOMAIN parser.string_table :
           ReadInside(bytecode, idx, parser.string_table[idx])

\* Nothing is written after a failed parse
NothingWritten == ParseFailed => output = None

\* decompile.py parsed the very buffer the parsers were given
SameBuffer ==
    (pc = "done" /\ ran = "decompile.main")
    => /\ stages = <<"custom_xor", "legacy">>
       /\ verdicts = <<FasParser_parse_fas_content(bytecode, NewParser).ok>>
       /\ parser = FasParser_parse_fas_content(bytecode, NewParser).st

----------------------------------------------------------------------------
(* Properties of the function-record loop.                                *)

RECURSIVE BodyEnd(_, _, _)
\* Where a body of n items that starts at q ends in d, or -1 if the buffer
\* ends before: an item is its type byte and, for the types 1 to 4, four
\* more bytes
BodyEnd(d, q, n) ==
    IF n = 0 THEN q
    ELSE IF q >= Len(d) THEN -1
    ELSE IF d[q + 1] \in 1..4
         THEN (IF q + 5 > Len(d) THEN -1 ELSE BodyEnd(d, q + 5, n - 1))
         ELSE BodyEnd(d, q + 1, n - 1)

\* Where the function record that starts at p ends in d, or -1 if the
\* buffer holds no complete record there
RecordEnd(d, p) ==
    IF p + 8 > Len(d) THEN -1
    ELSE IF U32(d, p + 4) > Len(d) \/ p + 8 + 4 * U32(d, p + 4) + 4 > Len(d) THEN -1
    ELSE BodyEnd(d, p + 8 + 4 * U32(d, p + 4) + 4,
                 U32(d, p + 8 + 4 * U32(d, p + 4)))

\* The whole call: the flag and the tables _parse_fas_content gives
WholeCall == parse_fas_content(Variant, bytecode, NewParser)

\* C28: the function-record loop terminates: a turn that appends a
\* function moves the position forward by at least 12 bytes over a
\* complete record, the position never exceeds len(buffer), a turn that
\* finds no complete record leaves the loop and appends nothing, so the
\* turns are bounded by the length of the buffer; the call then returns
\* what _parse_fas_content returns.
C28_FunctionLoop ==
    /\ Len(parser.functions) = walk.accepted
    /\ walk.turns <= walk.accepted + 1
    /\ 12 * walk.accepted <= walk.pos
    /\ walk.pos <= Len(bytecode)
    /\ (walk.turns > 0 /\ ~walk.skipped)
       => /\ walk.pos >= walk.prev + 12
          /\ walk.pos = RecordEnd(bytecode, walk.prev)
          /\ Len(parser.functions[walk.accepted].args) = U32(bytecode, walk.prev + 4)
    /\ walk.skipped
       => /\ pc = "done"
          /\ walk.pos = walk.prev
          /\ RecordEnd(bytecode, walk.prev) = -1
    /\ pc = "done" => /\ verdicts = <<WholeCall.ok>>
                      /\ parser = WholeCall.st

\* Fas4Parser appended a function and then left the loop at a record that
\* the buffer holds only in part
C28_LoopLeftAfterFunction ==
    /\ pc = "done"
    /\ ran = "Fas4Parser._parse_fas_content"
    /\ walk.skipped
    /\ walk.accepted >= 1
    /\ walk.pos + 8 <= Len(bytecode)

----------------------------------------------------------------------------
(* Properties of the keyed cipher run twice.                              *)

\* The key computed last differs from the 255 keys before it and equals
\* the key 256 positions before it
LastKey(n) ==
    /\ key_order[n] \in 0..255
    /\ \A j \in 1..(n - 1) : n - j < 256 => key_order[j] # key_order[n]
    /\ n > 256 => key_order[n] = key_order[n - 256]

\* C30: the keyed cipher is its own inverse: _custom_decompress of
\* _custom_decompress(x) is x for either parser; the keys depend on the
\* position alone, start at 0x55, take every value 0..255 exactly once
\* over the positions 0..255 and repeat with period 256.
C30_CipherInverse ==
    /\ pc = "done" => decoded_data = data
    /\ pc \in {"loop", "returned", "done"}
       => /\ key_order[1] = 85
          /\ LastKey(Len(key_order))
          /\ Len(key_order) >= 256 => {key_order[j] : j \in 1..256} = 0..255
          /\ Len(decoded_data) = walk.pos
    /\ (pc \in {"returned", "done"} /\ Len(bytecode) <= 32)
       => decoded_data = IF ran = "Fas4Parser._custom_decompress"
                         THEN Fas4Parser_custom_decompress(bytecode)
                         ELSE FasParser_custom_decompress(bytecode)

\* The second call gave back the 520 bytes the first call had changed
C30_LongInputRestored ==
    /\ pc = "done"
    /\ data = LongInput
    /\ decoded_data = data
    /\ bytecode # data
    /\ Len(key_order) > 512

====
